---- MODULE Spec2Model ----
(***************************************************************************)
(* Model of ruwren-macros (src/ruwren-macros/src/lib.rs): the derive macro *)
(* WrenObject (type split), the attribute macro wren_impl (signature and   *)
(* role resolution, code generation) and the code the macros generate (the *)
(* slot marshaling body, the native adapters, the constructor adapter and  *)
(* the finalizer).                                                          *)
(*                                                                         *)
(* Four components, each with its own specification:                       *)
(*   SpecSplit  the type split of one struct and the round trip            *)
(*   SpecDecl   wren_impl on one impl block, then allocate()/construct()   *)
(*   SpecCall   one call of a generated native adapter, statement by       *)
(*              statement                                                  *)
(*   SpecFin    the finalizer on one foreign object's storage              *)
(***************************************************************************)
EXTENDS Integers, Sequences, FiniteSets, TLC

VARIABLES
    \* --- type split (WrenObject derive) ---
    st,          \* the struct declaration: shape and per-field static flag
    logical,     \* a logical value of the struct
    class_rec,   \* Option: the class record split from it
    inst_rec,    \* Option: the instance record split from it
    rebuilt      \* Option: the logical value rebuilt from (&class, &instance)

splitVars == <<st, logical, class_rec, inst_rec, rebuilt>>

\* --- wren_impl on an impl block ---
VARIABLES
    items,       \* the impl block handed to wren_impl: Seq of declared methods
    expansion,   \* Option: what wren_impl expanded to
    allocated,   \* Option: what V2Class::allocate() returned
    constructed  \* Option: what ForeignItem::construct() returned, and the slots it read

declVars == <<items, expansion, allocated, constructed>>

\* --- one call of a generated adapter ---
VARIABLES
    batch,    \* the impl block the adapter was generated from (of 0 or 1 method)
    program,  \* the statements of the adapter
    inputs,   \* the inputs of the call
    pc,       \* index of the next statement
    pending,  \* the rest of an else block being executed
    vm,       \* slots, fiber state, user data, panic hook, foreign storage
    frame,    \* the adapter's local variables and borrows
    obs       \* what the call did

callVars == <<batch, program, inputs, pc, pending, vm, frame, obs>>

\* --- the finalizer ---
VARIABLES
    fo_object,   \* per foreign object: the pointer in its storage, or NullPtr
    boxes,       \* the instance records alive on the heap (by pointer)
    dropped,     \* per pointer: how many times the record was dropped
    finalized    \* per foreign object: how many times the finalizer ran on it

finVars == <<fo_object, boxes, dropped, finalized>>

vars == <<splitVars, declVars, callVars, finVars>>

\* Option<T> is a sequence of length at most one.
None == <<>>
Some(x) == <<x>>
IsSome(o) == o # <<>>
Unwrap(o) == o[1]

-----------------------------------------------------------------------------
(* Bounds *)
MaxFields == 3

\* Field values of a logical value.
FieldVals == 1..MaxFields

-----------------------------------------------------------------------------
(***************************************************************************)
(* Type split model.                                                       *)
(* A struct is [shape, statics]: statics[i] is the #[wren(static_member)]  *)
(* flag of field i.  A value of a Named struct is a function from field    *)
(* names to values, a value of an Unnamed (tuple) struct a sequence, the   *)
(* value of a Unit struct the empty sequence.                              *)
(***************************************************************************)
Shapes == {"Unit", "Named", "Unnamed"}

FieldName(i) == <<"field", i>>

FieldNames(s) == {FieldName(i) : i \in 1..Len(s.statics)}

IsStaticName(s, n) == s.statics[n[2]]

RECURSIVE static_indices(_, _)
\* the source indices i of the fields with static_member = want, in order
static_indices(statics, want) ==
    IF statics = <<>> THEN <<>>
    ELSE LET n == Len(statics)
             front == static_indices(SubSeq(statics, 1, n - 1), want)
         IN IF statics[n] = want THEN Append(front, n) ELSE front

\* From<Source> for SourceClass, as generate_class emits it
generate_class_from(s, source) ==
    CASE s.shape = "Unit" -> <<>>
      [] s.shape = "Named" ->
            [n \in {m \in FieldNames(s) : IsStaticName(s, m)} |-> source[n]]
      [] s.shape = "Unnamed" ->
            LET valid == static_indices(s.statics, TRUE)
            IN [k \in 1..Len(valid) |-> source[valid[k]]]

\* From<Source> for SourceInstance, as generate_instance emits it
generate_instance_from(s, source) ==
    CASE s.shape = "Unit" -> <<>>
      [] s.shape = "Named" ->
            [n \in {m \in FieldNames(s) : ~IsStaticName(s, m)} |-> source[n]]
      [] s.shape = "Unnamed" ->
            LET valid == static_indices(s.statics, FALSE)
            IN [k \in 1..Len(valid) |-> source[valid[k]]]

\* the running counters (ci, ii) of the scan in generate_enhancements, before
\* field i: the number of static and of non-static fields among 1..i-1
ScanCount(statics, i, want) ==
    Cardinality({j \in 1..(i - 1) : statics[j] = want})

\* SCAN BUG: the tuple index is the source index, not the running counter
generate_enhancements_from_srcidx(s, class, inst) ==
    CASE s.shape = "Unit" -> <<>>
      [] s.shape = "Named" ->
            [n \in FieldNames(s) |-> IF IsStaticName(s, n) THEN class[n] ELSE inst[n]]
      [] s.shape = "Unnamed" ->
            [i \in 1..Len(s.statics) |->
                IF s.statics[i]
                THEN class[IF i \in DOMAIN class THEN i ELSE 1]
                ELSE inst[IF i \in DOMAIN inst THEN i ELSE 1]]

\* From<(&SourceClass, &SourceInstance)> for Source, as generate_enhancements
\* emits it: every field cloned from the half that owns it
generate_enhancements_from(s, class, inst) ==
    CASE s.shape = "Unit" -> <<>>
      [] s.shape = "Named" ->
            [n \in FieldNames(s) |-> IF IsStaticName(s, n) THEN class[n] ELSE inst[n]]
      [] s.shape = "Unnamed" ->
            [i \in 1..Len(s.statics) |->
                IF s.statics[i]
                THEN class[ScanCount(s.statics, i, TRUE) + 1]
                ELSE inst[ScanCount(s.statics, i, FALSE) + 1]]

RECURSIVE BoolSeqs(_)
BoolSeqs(n) ==
    IF n = 0 THEN {<<>>}
    ELSE {Append(q, b) : q \in BoolSeqs(n - 1), b \in BOOLEAN}

\* the struct declarations of the model: a unit struct has no field
Structs ==
    {[shape |-> "Unit", statics |-> <<>>]}
    \cup {[shape |-> sh, statics |-> fl] :
            sh \in {"Named", "Unnamed"},
            fl \in UNION {BoolSeqs(n) : n \in 1..MaxFields}}

\* the logical values of a struct
ValuesOf(s) ==
    CASE s.shape = "Unit" -> {<<>>}
      [] s.shape = "Named" -> [FieldNames(s) -> FieldVals]
      [] s.shape = "Unnamed" -> [1..Len(s.statics) -> FieldVals]

InitSplit ==
    /\ st \in Structs
    /\ logical \in ValuesOf(st)
    /\ class_rec = None
    /\ inst_rec = None
    /\ rebuilt = None
    \* the other components are not in use
    /\ items = <<>>
    /\ expansion = None
    /\ allocated = None
    /\ constructed = None
    /\ batch = <<>>
    /\ program = <<>>
    /\ inputs = None
    /\ pc = 0
    /\ pending = <<>>
    /\ vm = None
    /\ frame = None
    /\ obs = None
    /\ fo_object = <<>>
    /\ boxes = {}
    /\ dropped = <<>>
    /\ finalized = <<>>

\* logical.into() twice: the class record and the instance record
SplitValue ==
    /\ class_rec = None
    /\ class_rec' = Some(generate_class_from(st, logical))
    /\ inst_rec' = Some(generate_instance_from(st, logical))
    /\ UNCHANGED <<st, logical, rebuilt>>
    /\ UNCHANGED <<declVars, callVars, finVars>>

\* (&class, &instance).into()
RebuildValue ==
    /\ IsSome(class_rec)
    /\ rebuilt = None
    /\ rebuilt' = Some(generate_enhancements_from(st, Unwrap(class_rec), Unwrap(inst_rec)))
    /\ UNCHANGED <<st, logical, class_rec, inst_rec>>
    /\ UNCHANGED <<declVars, callVars, finVars>>

NextSplit == SplitValue \/ RebuildValue

-----------------------------------------------------------------------------
\* C8: splitting a logical value into its class and instance records and
\* rebuilding from (&class, &instance) gives the value back field by field,
\* each static field held by the class half and each other field by the
\* instance half, for every shape and every assignment of the static flag.
C8_RoundTrip ==
    /\ IsSome(class_rec) =>
        /\ st.shape = "Named" =>
            /\ DOMAIN Unwrap(class_rec) = {n \in FieldNames(st) : IsStaticName(st, n)}
            /\ DOMAIN Unwrap(inst_rec) = {n \in FieldNames(st) : ~IsStaticName(st, n)}
        /\ st.shape = "Unnamed" =>
            /\ Len(Unwrap(class_rec)) = Cardinality({i \in 1..Len(st.statics) : st.statics[i]})
            /\ Len(Unwrap(inst_rec)) = Cardinality({i \in 1..Len(st.statics) : ~st.statics[i]})
    /\ IsSome(rebuilt) => Unwrap(rebuilt) = logical

\* a tuple struct whose static and non-static fields interleave, rebuilt
C8_Witness ==
    /\ IsSome(rebuilt)
    /\ st.shape = "Unnamed"
    /\ Len(st.statics) >= 3
    /\ ~st.statics[1] /\ st.statics[2] /\ ~st.statics[3]
    /\ logical[1] # logical[2] /\ logical[2] # logical[3]


-----------------------------------------------------------------------------
(***************************************************************************)
(* Signature and role resolution (wren_impl).                              *)
(*                                                                         *)
(* A declared method (WrenImplFn) is                                       *)
(*   [name, allocator, constructor, instance, getter, setter, ignore,      *)
(*    object, has_self, inputs, output]                                    *)
(* has_self: the signature starts with a self receiver; inputs: the typed  *)
(* inputs [pat, ty] after it; output: the written return type.             *)
(***************************************************************************)

MaxParams == 2
MaxBatch == 2

\* Return types as written: absent, (), _, SourceClass, Result<SourceInstance,
\* String>, and some other path type.
Outputs == {"Default", "Unit", "Infer", "Class", "ResultInstance", "OtherPath"}

\* Types of typed inputs: SourceClass, &mut SourceClass, a plain type, and the
\* logical types of two registered classes.
ClassTy == "Class"
RefClassTy == "RefClass"
WrapperTy == "Wrapper"

Err(kind, name, n) == [kind |-> kind, name |-> name, n |-> n]

RECURSIVE SelectIdx(_, _, _)
\* <<i, s[i]>> for the i with keep[i], in order (enumerate, then filter)
SelectIdx(s, keep, i) ==
    IF i > Len(s) THEN <<>>
    ELSE (IF keep[i] THEN <<(<<i - 1, s[i]>>)>> ELSE <<>>) \o SelectIdx(s, keep, i + 1)

InSeq(x, s) == \E i \in 1..Len(s) : s[i] = x

\* the non-receiver typed parameters: sig.inputs without the receiver
NonReceiverArgs(value) ==
    IF value.has_self THEN value.inputs ELSE Tail(value.inputs)

\* args.len() as try_from counts it: the self receiver is counted
ArgsLen(value) ==
    IF value.has_self THEN Len(value.inputs) + 1 ELSE Len(value.inputs) - 1

\* PARTITION BUG: the index is taken after the partition, per list
partition_params_local(value, want) ==
    LET args == NonReceiverArgs(value)
        keep == [i \in 1..Len(args) |-> InSeq(args[i].pat, value.object) = want]
        sel == SelectIdx(args, keep, 1)
    IN [k \in 1..Len(sel) |-> <<k - 1, sel[k][2]>>]

\* enumerate().partition(..): the (index, parameter) pairs whose pattern is
\* (want = TRUE) or is not (want = FALSE) named in #[wren_impl(object(..))]
partition_params(value, want) ==
    LET args == NonReceiverArgs(value)
        keep == [i \in 1..Len(args) |-> InSeq(args[i].pat, value.object) = want]
    IN SelectIdx(args, keep, 1)

\* the errors for the names of object(..) that are no top-level parameter
object_errors(value) ==
    LET args == NonReceiverArgs(value)
        missing == [i \in 1..Len(value.object) |->
                        ~\E j \in 1..Len(args) : args[j].pat = value.object[i]]
        sel == SelectIdx(value.object, missing, 1)
    IN [k \in 1..Len(sel) |-> Err("object_not_found", sel[k][2], 0)]

\* SETTER BUG: the return type is not looked at
setter_ok_noret(value) ==
    ArgsLen(value) = (IF value.has_self THEN 2 ELSE 1)

setter_ok(value) ==
    /\ ArgsLen(value) = (IF value.has_self THEN 2 ELSE 1)
    /\ value.output \in {"Default", "Unit"}

\* COUNT BUG: a getter may take a parameter
getter_ok_upto_one(value) ==
    ArgsLen(value) <= (IF value.has_self THEN 2 ELSE 1)

getter_ok(value) ==
    ArgsLen(value) = (IF value.has_self THEN 1 ELSE 0)

\* ARITY BUG: only the plain parameters are counted
arity_plain_only(f) == Len(f.normal_params)

arity(f) == Len(f.normal_params) + Len(f.object_params)

\* NAME BUG: the adapter is named after the declared name
base_name_declared(f) ==
    IF IsSome(f.source_name) THEN Unwrap(f.source_name) ELSE f.func.name

base_name(f) == f.func.name

source_name(f) == IF IsSome(f.source_name) THEN Unwrap(f.source_name) ELSE f.func.name

\* impl TryFrom<(&Ident, WrenImplFn)> for WrenImplValidFn: [ok, errors, fn]
try_from(value) ==
    IF ~value.has_self /\ value.inputs = <<>>
    THEN [ok |-> FALSE, errors |-> <<Err("must_have_receiver", value.name, 0)>>, fn |-> None]
    ELSE
    LET receiver_ty == IF value.has_self
                       THEN (IF value.instance THEN WrapperTy ELSE ClassTy)
                       ELSE value.inputs[1].ty
        errors0 == object_errors(value)
        is_setter == value.setter /\ setter_ok(value)
        errors1 == IF value.setter /\ ~setter_ok(value)
                   THEN Append(errors0, Err("setter", value.name, ArgsLen(value)))
                   ELSE errors0
        given0 == IF is_setter THEN Some("setter_" \o value.name) ELSE None
        is_getter == value.getter /\ getter_ok(value)
        errors2 == IF value.getter /\ ~getter_ok(value)
                   THEN Append(errors1, Err("getter", value.name, ArgsLen(value)))
                   ELSE errors1
        given_name == IF is_getter THEN Some("getter_" \o value.name) ELSE given0
    IN IF errors2 # <<>>
       THEN [ok |-> FALSE, errors |-> errors2, fn |-> None]
       ELSE [ok |-> TRUE, errors |-> <<>>,
             fn |-> Some([receiver_ty |-> receiver_ty,
                          is_getter |-> is_getter,
                          is_setter |-> is_setter,
                          source_name |-> IF IsSome(given_name) THEN Some(value.name) ELSE None,
                          is_static |-> ~value.instance,
                          func |-> IF IsSome(given_name)
                                   THEN [value EXCEPT !.name = Unwrap(given_name)]
                                   ELSE value,
                          normal_params |-> partition_params(value, FALSE),
                          object_params |-> partition_params(value, TRUE)])]

\* RECEIVER BUG: the self receiver is not counted among the inputs
has_inputs_typed_only(a) == a.inputs # <<>>

\* !sig.inputs.is_empty(): the receiver is one of the inputs
has_inputs(a) == a.has_self \/ a.inputs # <<>>

\* FAIL-FAST BUG: the return type is not looked at once the parameters failed
validate_allocator_first_error(a) ==
    LET e1 == IF has_inputs(a)
              THEN <<Err("allocator_params", a.name, 0)>> ELSE <<>>
        e2 == IF a.output \in {"Default", "Infer", "Class"}
              THEN <<>> ELSE <<Err("allocator_return", a.name, 0)>>
    IN [errors |-> IF e1 # <<>> THEN e1 ELSE e2,
        fn |-> IF a.output \in {"Default", "Infer"} THEN [a EXCEPT !.output = "Class"] ELSE a]

\* WrenImplFn::validate_allocator: [errors, fn], fn with the return type completed
validate_allocator(a) ==
    LET e1 == IF has_inputs(a)
              THEN <<Err("allocator_params", a.name, 0)>> ELSE <<>>
        e2 == IF a.output \in {"Default", "Infer", "Class"}
              THEN <<>> ELSE <<Err("allocator_return", a.name, 0)>>
    IN [errors |-> e1 \o e2,
        fn |-> IF a.output \in {"Default", "Infer"} THEN [a EXCEPT !.output = "Class"] ELSE a]

\* COMPLETION BUG: the placeholder _ is not completed
constructor_output_default_only(output) ==
    IF output = "Default" THEN "ResultInstance" ELSE output

\* the return type of a constructor after completion: absent and _ become
\* Result<SourceInstance, String>
constructor_output(output) ==
    IF output \in {"Default", "Infer"} THEN "ResultInstance" ELSE output

\* the constructor arm of WrenObjectImpl::validate: [errors, fn]
validate_constructor(c) ==
    LET r == try_from(c)
    IN IF ~r.ok THEN [errors |-> r.errors, fn |-> None]
       ELSE LET f0 == Unwrap(r.fn)
                out == constructor_output(f0.func.output)
                f == [f0 EXCEPT !.func.output = out]
            IN IF out = "ResultInstance"
               THEN IF f.receiver_ty \in {ClassTy, RefClassTy}
                    THEN [errors |-> <<>>, fn |-> Some(f)]
                    ELSE [errors |-> <<Err("constructor_receiver", c.name, 0)>>, fn |-> None]
               ELSE [errors |-> <<Err("constructor_return", c.name, 0)>>, fn |-> None]

\* FILTER BUG: an ignored method is resolved like any other
IsOther_keeps_ignored(fi) == ~fi.constructor /\ ~fi.allocator

\* FILTER BUG: a constructor is resolved with the other methods as well
IsOther_keeps_constructor(fi) == ~fi.ignore /\ ~fi.allocator

IsOther(fi) == ~fi.ignore /\ ~fi.constructor /\ ~fi.allocator

RECURSIVE validate_others(_)
\* the filter / filter_map over the remaining items: [errors, others]
validate_others(its) ==
    IF its = <<>> THEN [errors |-> <<>>, others |-> <<>>]
    ELSE LET rest == validate_others(Tail(its))
             fi == Head(its)
         IN IF ~IsOther(fi) THEN rest
            ELSE LET r == try_from(fi)
                 IN IF r.ok
                    THEN [errors |-> rest.errors, others |-> <<Unwrap(r.fn)>> \o rest.others]
                    ELSE [errors |-> r.errors \o rest.errors, others |-> rest.others]

Rejected(errors) ==
    [ok |-> FALSE, errors |-> errors, allocator |-> None, constructor |-> None, others |-> <<>>]

\* COUNT BUG: exactly one allocator (or constructor) is demanded
more_than_one_or_none(n) == n # 1

\* allocators.len() <= 1 and constructors.len() <= 1, negated
more_than_one(n) == n > 1

\* the end of WrenObjectImpl::validate: the errors of the three parts
\* together, or the valid impl
validate_result(allocator, av, cv, ov) ==
    IF av.errors \o cv.errors \o ov.errors # <<>>
    THEN Rejected(av.errors \o cv.errors \o ov.errors)
    ELSE [ok |-> TRUE, errors |-> <<>>, allocator |-> allocator,
          constructor |-> cv.fn, others |-> ov.others]

\* WrenObjectImpl::validate
validate(its) ==
    LET allocators == SelectSeq(its, LAMBDA fi : fi.allocator)
        constructors == SelectSeq(its, LAMBDA fi : fi.constructor)
    IN IF more_than_one(Len(allocators))
       THEN Rejected(<<Err("expected_0_or_1_allocators", "", Len(allocators))>>)
       ELSE IF more_than_one(Len(constructors))
       THEN Rejected(<<Err("expected_0_or_1_constructors", "", Len(constructors))>>)
       ELSE validate_result(
                IF allocators # <<>> THEN Some(validate_allocator(allocators[1]).fn) ELSE None,
                IF allocators # <<>> THEN validate_allocator(allocators[1])
                ELSE [errors |-> <<>>, fn |-> None],
                IF constructors # <<>> THEN validate_constructor(constructors[1])
                ELSE [errors |-> <<>>, fn |-> None],
                validate_others(its))

\* NAME BUG: the signature carries the prefixed name of the generated function
function_decl_base_name(func) ==
    [is_static |-> func.is_static,
     signature |-> IF func.is_getter THEN <<"getter", base_name(func)>>
                   ELSE IF func.is_setter THEN <<"setter", base_name(func)>>
                   ELSE <<"function", base_name(func), arity(func)>>,
     pointer |-> <<IF func.is_static THEN ClassTy ELSE WrapperTy,
                   "native_vm_" \o base_name(func)>>]

\* one MethodPointer of generate_pointers
function_decl(func) ==
    [is_static |-> func.is_static,
     signature |-> IF func.is_getter THEN <<"getter", source_name(func)>>
                   ELSE IF func.is_setter THEN <<"setter", source_name(func)>>
                   ELSE <<"function", source_name(func), arity(func)>>,
     pointer |-> <<IF func.is_static THEN ClassTy ELSE WrapperTy,
                   "native_vm_" \o base_name(func)>>]

\* a function of the generated impl block together with its adapter
generated_fn(func) ==
    [func |-> func.func.name,
     vm_fn |-> "vm_" \o base_name(func),
     native |-> "native_vm_" \o base_name(func)]

\* DEFAULT BUG: a declared allocator is not called, the default is
allocator_call_default_only(valid) == "___default_alloc"

allocator_call(valid) ==
    IF IsSome(valid.allocator) THEN Unwrap(valid.allocator).name ELSE "___default_alloc"

constructor_call(valid) ==
    IF IsSome(valid.constructor)
    THEN "vm_" \o Unwrap(valid.constructor).func.name
    ELSE "___default_constructor"

\* the expansion on a validation failure: #errors and nothing else
NoExpansion(errors) ==
    [diagnostics |-> errors, generated |-> FALSE,
     allocator_fn |-> None, constructor_fn |-> None,
     allocate |-> None, construct |-> None,
     function_pointers |-> <<>>, static_fns |-> <<>>, instance_fns |-> <<>>,
     finalizer |-> FALSE]

\* the items wren_impl emits for a valid impl
expand(v) ==
    [diagnostics |-> <<>>, generated |-> TRUE,
     allocator_fn |-> Some(allocator_call(v)),
     constructor_fn |-> Some(IF IsSome(v.constructor)
                             THEN Unwrap(v.constructor).func.name
                             ELSE "___default_constructor"),
     allocate |-> Some(allocator_call(v)),
     construct |-> Some(constructor_call(v)),
     function_pointers |-> [k \in 1..Len(v.others) |-> function_decl(v.others[k])],
     static_fns |-> [k \in 1..Len(SelectSeq(v.others, LAMBDA f : f.is_static)) |->
                        generated_fn(SelectSeq(v.others, LAMBDA f : f.is_static)[k])],
     instance_fns |-> [k \in 1..Len(SelectSeq(v.others, LAMBDA f : ~f.is_static)) |->
                        generated_fn(SelectSeq(v.others, LAMBDA f : ~f.is_static)[k])],
     finalizer |-> TRUE]

\* PARTIAL BUG: the items are emitted next to the diagnostics
expand_with_errors(v) == [expand(v) EXCEPT !.diagnostics = v.errors]

\* the match on validate() at the head of wren_impl
expand_or_report(v) ==
    IF ~v.ok THEN NoExpansion(v.errors) ELSE expand(v)

\* wren_impl: the diagnostics alone, or the generated items
wren_impl(its) == expand_or_report(validate(its))

-----------------------------------------------------------------------------
(***************************************************************************)
(* Code generation: the statements of the generated functions.             *)
(* A generated function is a sequence of statements; the else block of a   *)
(* let-else statement is the sequence in its field "failure".              *)
(***************************************************************************)
FailMsg(ty, slot_idx) == <<"failed to get value of type", ty, "for slot", slot_idx>>

\* MESSAGE BUG: the message names the parameter index, not the slot
failure_block_names_idx(ty, slot_idx, constructor_mode) ==
    IF constructor_mode
    THEN <<[op |-> "return_err", msg |-> <<"failed to get value of type", ty, "for slot", slot_idx - 1>>]>>
    ELSE <<[op |-> "to_vm_msg", msg |-> <<"failed to get value of type", ty, "for slot", slot_idx - 1>>,
            slot |-> 0, scratch |-> 1],
           [op |-> "abort_fiber", slot |-> 0],
           [op |-> "return"]>>

\* the else block of an extraction in gen_vm_fn_body
failure_block(ty, slot_idx, constructor_mode) ==
    IF constructor_mode
    THEN <<[op |-> "return_err", msg |-> FailMsg(ty, slot_idx)]>>
    ELSE <<[op |-> "to_vm_msg", msg |-> FailMsg(ty, slot_idx), slot |-> 0, scratch |-> 1],
           [op |-> "abort_fiber", slot |-> 0],
           [op |-> "return"]>>

\* SLOT BUG: the slot of parameter idx is idx, so that parameter 0 reads slot 0
slot_of_idx_same(idx) == idx

\* let slot_idx = idx + 1
slot_of_idx(idx) == idx + 1

\* CURSOR BUG: every cursor is created fresh
calc_stmt_fresh(f, p, is_obj) ==
    [op |-> "calc", idx |-> p[1],
     ctor |-> IF is_obj THEN "object_new" ELSE "new",
     slot |-> slot_of_idx(p[1]),
     arity |-> arity(f),
     prev |-> p[1] - 1]

\* let argN_calc = InputSlot::new / next / object_new / object_next
calc_stmt(f, p, is_obj) ==
    [op |-> "calc", idx |-> p[1],
     ctor |-> IF p[1] = 0 THEN (IF is_obj THEN "object_new" ELSE "new")
              ELSE (IF is_obj THEN "object_next" ELSE "next"),
     slot |-> slot_of_idx(p[1]),
     arity |-> arity(f),
     prev |-> p[1] - 1]

\* let Some(argN): Option<ty> = get_slot_value(vm, &argN_calc, arity) else {..}
normal_arg_stmt(f, p, constructor_mode) ==
    [op |-> "get_slot_value", idx |-> p[1], ty |-> p[2].ty, arity |-> arity(f),
     failure |-> failure_block(p[2].ty, slot_of_idx(p[1]), constructor_mode)]

\* OBJECT FAILURE BUG: a failed lookup of an object parameter panics
object_failure_panics(ty, slot_idx, constructor_mode) ==
    <<[op |-> "panic", msg |-> <<"slot", slot_idx, "cannot be type", ty>>]>>

\* the else block of an object extraction
object_failure(ty, slot_idx, constructor_mode) ==
    failure_block(ty, slot_idx, constructor_mode)

\* let Some(argN): Option<ty> =
\*     get_slot_object::<source_type, _>(vm, &argN_calc, arity, receiver) else {..}
object_arg_stmt(f, p, constructor_mode) ==
    [op |-> "get_slot_object", idx |-> p[1], ty |-> p[2].ty,
     source_type |-> p[2].ty,   \* FindInnerType, then its instance type
     arity |-> arity(f),
     receiver |-> IF f.is_static THEN "self" ELSE "self.class",
     \* Slottable::get, once the slot holds an instance: Some((&*ctx, inst).into())
     found |-> <<[op |-> "into_source", idx |-> p[1]]>>,
     failure |-> object_failure(p[2].ty, slot_of_idx(p[1]), constructor_mode)]

RECURSIVE SortByIdx(_)
\* sort_by(|a, b| a.cmp(b)) on the index field; the indices are distinct
SortByIdx(S) ==
    IF S = {} THEN <<>>
    ELSE LET m == CHOOSE x \in S : \A y \in S : x.idx <= y.idx
         IN <<m>> \o SortByIdx(S \ {m})

SeqToSet(s) == {s[i] : i \in 1..Len(s)}

\* ORDER BUG: the arguments stay grouped, the object ones first
call_args_grouped(f) ==
    [k \in 1..Len(f.object_params) |->
        [idx |-> f.object_params[k][1], is_obj |-> TRUE,
         slot |-> slot_of_idx(f.object_params[k][1]), ty |-> f.object_params[k][2].ty]]
    \o [k \in 1..Len(f.normal_params) |->
        [idx |-> f.normal_params[k][1], is_obj |-> FALSE,
         slot |-> slot_of_idx(f.normal_params[k][1]), ty |-> f.normal_params[k][2].ty]]

\* the argument expressions of the call, back in declaration order
call_args(f) ==
    SortByIdx({[idx |-> p[1], is_obj |-> TRUE, slot |-> slot_of_idx(p[1]), ty |-> p[2].ty]
                  : p \in SeqToSet(f.object_params)}
              \cup
              {[idx |-> p[1], is_obj |-> FALSE, slot |-> slot_of_idx(p[1]), ty |-> p[2].ty]
                  : p \in SeqToSet(f.normal_params)})

\* RECEIVER BUG: the native method is called with its arguments alone
call_stmt_no_receiver(f) ==
    [op |-> "call",
     path |-> IF f.is_static THEN ClassTy ELSE WrapperTy,
     receiver |-> "none",
     name |-> base_name(f),
     args |-> call_args(f)]

\* let ret = Class::name(self, args..) or Wrapper::name(self, args..)
call_stmt(f) ==
    [op |-> "call",
     path |-> IF f.is_static THEN ClassTy ELSE WrapperTy,
     receiver |-> "self",
     name |-> base_name(f),
     args |-> call_args(f)]

\* the extractors, sorted by position
extractors(f) ==
    SortByIdx({calc_stmt(f, p, FALSE) : p \in SeqToSet(f.normal_params)}
              \cup {calc_stmt(f, p, TRUE) : p \in SeqToSet(f.object_params)})

\* WrenImplValidFn::gen_vm_fn_body
gen_vm_fn_body(f, constructor_mode) ==
    extractors(f)
    \o [k \in 1..Len(f.normal_params) |->
            normal_arg_stmt(f, f.normal_params[k], constructor_mode)]
    \o [k \in 1..Len(f.object_params) |->
            object_arg_stmt(f, f.object_params[k], constructor_mode)]
    \o <<call_stmt(f)>>

\* WrenImplValidFn::gen_vm_fn_constructor: the body, then the value of ret
gen_vm_fn_constructor(f) ==
    gen_vm_fn_body(f, TRUE) \o <<[op |-> "return_ret"]>>

\* WrenImplValidFn::gen_vm_fn: the body, then ret written to slot 0
gen_vm_fn(f) ==
    gen_vm_fn_body(f, FALSE)
    \o <<[op |-> "to_vm_ret", slot |-> 0, scratch |-> 1], [op |-> "return"]>>

\* ORDER BUG: the panic hook is replaced before the session is recovered
prologue_hook_first ==
    <<[op |-> "read_user_data"],
      [op |-> "set_hook"],
      [op |-> "upgrade"],
      [op |-> "borrow_vm"]>>

\* the first four statements of every adapter
prologue ==
    <<[op |-> "read_user_data"],     \* conf = ptr::read_unaligned(wrenGetUserData(vm))
      [op |-> "upgrade"],            \* Weak::upgrade(&conf.vm) or panic
      [op |-> "set_hook"],           \* set_hook(Box::new(|_| {}))
      [op |-> "borrow_vm"]>>         \* vm_borrow = AssertUnwindSafe(vm.borrow())

\* WrenImplValidFn::gen_native_vm_fn: the extern "C" adapter of a static or an
\* instance method, with the call of vm_<name> inlined
gen_native_vm_fn(f) ==
    prologue
    \o (IF f.is_static THEN <<>>
        ELSE <<[op |-> "ensure_slots", n |-> 1],
               [op |-> "get_slot_foreign_mut", slot |-> 0]>>)
    \o <<[op |-> "use_class_mut",
          \* vm_<name>(class, vm), or (class, inst).into() and wrapper.vm_<name>(vm)
          self |-> IF f.is_static THEN "class" ELSE "wrapper"]>>
    \o gen_vm_fn(f)
    \o <<[op |-> "end_vm_fn"],
         [op |-> "take_hook"],       \* drop(take_hook())
         [op |-> "write_user_data"], \* ptr::write_unaligned(wrenGetUserData(ovm), conf)
         [op |-> "exit"]>>

\* ForeignItem::construct of the generated impl: #constructor_call
construct_stmts(ctor) ==
    IF IsSome(ctor) THEN gen_vm_fn_constructor(Unwrap(ctor))
    ELSE <<[op |-> "default_constructor"]>>

\* ALLOCATION BUG: the storage is allocated at slot 0, then once more
create_ok_twice ==
    <<[op |-> "set_slot_new_foreign", slot |-> 0],
      [op |-> "set_slot_new_foreign", slot |-> 0],
      [op |-> "write_foreign_object"]>>

\* the Ok(object) arm of _constructor: wrenSetSlotNewForeign(vm, 0, 0, size),
\* then ptr::write of ForeignObject { object, type_id }
create_ok ==
    <<[op |-> "set_slot_new_foreign", slot |-> 0],
      [op |-> "write_foreign_object"]>>

\* the extern "C" fn _constructor of initialize_pointer, with create / construct
\* inlined
constructor_adapter(ctor) ==
    prologue
    \o <<[op |-> "create"]>>
    \o construct_stmts(ctor)
    \o <<[op |-> "end_vm_fn"],
         [op |-> "match_create",
          on_ok |-> create_ok,
          on_err |-> <<[op |-> "set_slot_string", slot |-> 0],
                       [op |-> "abort_fiber", slot |-> 0]>>],
         [op |-> "take_hook"],
         [op |-> "write_user_data"],
         [op |-> "set_user_data"],   \* wrenSetUserData(ovm, ud)
         [op |-> "exit"]>>

-----------------------------------------------------------------------------
(***************************************************************************)
(* Execution of the generated code.                                        *)
(* A call state c is [pc, pending, vm, frame, obs]: pc the index of the    *)
(* next statement of the program, pending the rest of an else block being  *)
(* executed, vm the state the VM owns (slots, fiber, user data, panic      *)
(* hook, foreign storage), frame the adapter's locals, obs what the call   *)
(* did (native invocations, slot reads, how it ended).                     *)
(* The inputs inp of a call are what the adapter cannot decide: whether    *)
(* the session is alive, whether the class is registered, how the native   *)
(* method behaves, and what a panic leaving an extern "C" function does    *)
(* in this build.                                                          *)
(***************************************************************************)
\* the logical type of the impl block, and the type of another class
SourceTy == "Foo"
OtherTy == "Bar"
PlainTy == "f64"

\* the struct behind the impl block and its Default::default() value
DeclStruct == [shape |-> "Unnamed", statics |-> <<TRUE, FALSE, TRUE>>]
DefaultSource == <<"d1", "d2", "d3">>

Num == [kind |-> "num"]
Foreign(ty, obj) == [kind |-> "foreign", ty |-> ty, obj |-> obj]

\* VM::get_slot_foreign::<T>(slot): the object when the slot holds a foreign
\* object of type T
get_slot_foreign(slots, slot, ty) ==
    IF slots[slot].kind = "foreign" /\ slots[slot].ty = ty
    THEN Some(slots[slot]) ELSE None

\* foreign_v2::get_slot_value::<ty>(vm, &calc, arity)
get_slot_value(slots, calc, ty) ==
    IF ty = PlainTy /\ slots[calc.slot].kind = "num"
    THEN Some([slot |-> calc.slot, val |-> slots[calc.slot]]) ELSE None

\* Slottable::get of the generated impl: vm.get_slot_foreign::<Self>(slot)?,
\* then (&*ctx, inst).into()
slottable_get(slots, slot, source_type) ==
    LET inst == get_slot_foreign(slots, slot, source_type)
    IN IF IsSome(inst) THEN Some([slot |-> slot, val |-> Unwrap(inst)]) ELSE None

\* foreign_v2::get_slot_object::<source_type, _>(vm, &calc, arity, receiver)
get_slot_object(slots, calc, source_type) ==
    slottable_get(slots, calc.slot, source_type)

\* arg.try_into() of the call expression: the variable has the declared type
\* of the parameter, so the conversion is the reflexive one
try_into(from_ty, to_ty) == from_ty = to_ty

\* the class record of the class, and the combined view (class, inst).into()
ClassRecord == [class |-> SourceTy]
Wrapper(class, inst) == [class |-> class.class, instance |-> inst.obj]

\* a panic: nothing in the adapter catches it, so it leaves the extern "C"
\* function, and the build decides what that does
Panic(c, inp, prog, msg) ==
    [c EXCEPT !.pc = Len(prog) + 1,
              !.pending = <<>>,
              !.obs.panicked = TRUE,
              !.obs.panic_msg = Some(msg),
              !.obs.outcome = inp.panic_abi]

\* the statement after the end of the generated vm_ function
EndOfVmFn(prog, from) ==
    CHOOSE i \in from..Len(prog) :
        /\ prog[i].op = "end_vm_fn"
        /\ \A j \in from..(i - 1) : prog[j].op # "end_vm_fn"

Cur(c, prog) == IF c.pending # <<>> THEN Head(c.pending) ELSE prog[c.pc]

\* the state with the current statement consumed
Consume(c) ==
    IF c.pending # <<>> THEN [c EXCEPT !.pending = Tail(@)] ELSE [c EXCEPT !.pc = @ + 1]

Done(c, prog) == c.pending = <<>> /\ c.pc > Len(prog)

\* the value the native method returns
NativeReturn(inp, stmt) ==
    IF inp.kind = "constructor"
    THEN (IF inp.native = "err" THEN [ok |-> FALSE, val |-> <<"native error">>]
          ELSE [ok |-> TRUE, val |-> <<"instance of", stmt.name>>])
    ELSE [kind |-> "ret", of |-> stmt.name]

\* one statement of the generated code
Exec(c, inp, prog) ==
    LET stmt == Cur(c, prog)
        n == Consume(c)
    IN CASE stmt.op = "read_user_data" ->
              [n EXCEPT !.frame.conf = Some(c.vm.user_data)]
         [] stmt.op = "upgrade" ->
              IF inp.session_alive THEN [n EXCEPT !.frame.vm_rc = TRUE]
              ELSE Panic(c, inp, prog, <<"Failed to access VM">>)
         [] stmt.op = "set_hook" ->
              [n EXCEPT !.vm.hook = "noop"]
         [] stmt.op = "borrow_vm" ->
              [n EXCEPT !.frame.borrows = @ \cup {<<"vm", "shared">>}]
         [] stmt.op = "ensure_slots" -> n
         [] stmt.op = "get_slot_foreign_mut" ->
              LET inst == get_slot_foreign(c.vm.slots, stmt.slot, SourceTy)
              IN IF IsSome(inst)
                 THEN [n EXCEPT !.frame.inst = inst,
                                !.frame.borrows = @ \cup {<<"instance", Unwrap(inst).obj, "mut">>},
                                !.obs.reads = Append(@, [slot |-> stmt.slot, arg |-> None])]
                 ELSE Panic([c EXCEPT !.obs.reads = Append(@, [slot |-> stmt.slot, arg |-> None])], inp, prog,
                            <<"Tried to call on non-instance type">>)
         [] stmt.op = "use_class_mut" ->
              IF inp.class_registered
              THEN [n EXCEPT !.frame.borrows = @ \cup {<<"class", SourceTy, "mut">>},
                             !.frame.self =
                                 IF stmt.self = "class" THEN Some(ClassRecord)
                                 ELSE Some(Wrapper(ClassRecord, Unwrap(c.frame.inst)))]
              ELSE Panic(c, inp, prog, <<"Failed to resolve class">>)
         [] stmt.op = "calc" ->
              \* new / object_new take (slot, arity); next / object_next take
              \* (slot, &previous cursor)
              [n EXCEPT !.frame.calcs = @ @@ (stmt.idx :>
                            IF stmt.ctor \in {"new", "object_new"}
                            THEN [slot |-> stmt.slot, arity |-> stmt.arity,
                                  ctor |-> stmt.ctor, prev |-> None]
                            ELSE [slot |-> stmt.slot, arity |-> @[stmt.prev].arity,
                                  ctor |-> stmt.ctor, prev |-> Some(@[stmt.prev])])]
         [] stmt.op = "get_slot_value" ->
              LET calc == c.frame.calcs[stmt.idx]
                  got == get_slot_value(c.vm.slots, calc, stmt.ty)
                  r == [n EXCEPT !.obs.reads = Append(@, [slot |-> calc.slot, arg |-> Some(stmt.idx)])]
              IN IF IsSome(got)
                 THEN [r EXCEPT !.frame.args = @ @@ (stmt.idx :> Unwrap(got))]
                 ELSE [r EXCEPT !.pending = stmt.failure,
                                !.obs.failed = Some([idx |-> stmt.idx, is_obj |-> FALSE])]
         [] stmt.op = "get_slot_object" ->
              LET calc == c.frame.calcs[stmt.idx]
                  got == get_slot_object(c.vm.slots, calc, stmt.source_type)
                  r == [n EXCEPT !.obs.reads = Append(@, [slot |-> calc.slot, arg |-> Some(stmt.idx)])]
              IN IF IsSome(got)
                 THEN [r EXCEPT !.pending = stmt.found,
                                !.frame.found = got,
                                \* inst: &Instance, out of vm.get_slot_foreign
                                !.frame.borrows =
                                    @ \cup {<<"instance", Unwrap(got).val.obj, "shared">>}]
                 ELSE [r EXCEPT !.pending = stmt.failure,
                                !.obs.failed = Some([idx |-> stmt.idx, is_obj |-> TRUE])]
         [] stmt.op = "into_source" ->
              \* the fields are cloned into the logical object; inst is dropped
              [n EXCEPT !.frame.args = @ @@ (stmt.idx :> Unwrap(c.frame.found)),
                        !.frame.found = None,
                        !.frame.borrows =
                            @ \ {<<"instance", Unwrap(c.frame.found).val.obj, "shared">>}]
         [] stmt.op = "to_vm_msg" ->
              [n EXCEPT !.vm.slots[stmt.slot] = [kind |-> "string", msg |-> stmt.msg]]
         [] stmt.op = "abort_fiber" ->
              [n EXCEPT !.vm.fiber_aborted = TRUE,
                        !.vm.abort_msg = Some(c.vm.slots[stmt.slot])]
         [] stmt.op = "return" ->
              [c EXCEPT !.pending = <<>>, !.pc = EndOfVmFn(prog, c.pc)]
         [] stmt.op = "return_err" ->
              [c EXCEPT !.pending = <<>>, !.pc = EndOfVmFn(prog, c.pc),
                        !.frame.result = Some([ok |-> FALSE, val |-> stmt.msg])]
         [] stmt.op = "panic" ->
              Panic(c, inp, prog, stmt.msg)
         [] stmt.op = "call" ->
              IF \E k \in 1..Len(stmt.args) :
                    stmt.args[k].is_obj /\ ~try_into(stmt.args[k].ty, stmt.args[k].ty)
              THEN Panic(c, inp, prog, <<"slot cannot be type">>)
              ELSE LET called ==
                        [n EXCEPT !.obs.native_calls = @ + 1,
                                  !.obs.native_args =
                                      [k \in 1..Len(stmt.args) |-> c.frame.args[stmt.args[k].idx]],
                                  !.obs.native_path = stmt.path,
                                  !.obs.native_receiver =
                                      IF stmt.receiver = "self" THEN c.frame.self ELSE None]
                   IN IF inp.native = "panic"
                      THEN Panic(called, inp, prog, <<"native panic">>)
                      ELSE [called EXCEPT !.frame.ret = Some(NativeReturn(inp, stmt))]
         [] stmt.op = "to_vm_ret" ->
              [n EXCEPT !.vm.slots[stmt.slot] = Unwrap(c.frame.ret),
                        !.obs.ret_written = TRUE]
         [] stmt.op = "return_ret" ->
              [n EXCEPT !.frame.result = c.frame.ret]
         [] stmt.op = "end_vm_fn" ->
              [n EXCEPT !.frame.borrows = @ \ {<<"class", SourceTy, "mut">>}]
         [] stmt.op = "take_hook" ->
              [n EXCEPT !.vm.hook = "default"]
         [] stmt.op = "write_user_data" ->
              [n EXCEPT !.vm.user_data = Unwrap(c.frame.conf)]
         [] stmt.op = "set_user_data" -> n
         [] stmt.op = "exit" ->
              [n EXCEPT !.frame.borrows = {}, !.obs.outcome = "returned"]
         [] stmt.op = "create" ->
              [n EXCEPT !.frame.borrows = @ \cup {<<"class", SourceTy, "mut">>},
                        !.frame.self = Some(ClassRecord)]
         [] stmt.op = "default_constructor" ->
              [n EXCEPT !.frame.result =
                    Some([ok |-> TRUE, val |-> generate_instance_from(DeclStruct, DefaultSource)])]
         [] stmt.op = "match_create" ->
              [n EXCEPT !.pending = IF Unwrap(c.frame.result).ok THEN stmt.on_ok ELSE stmt.on_err]
         [] stmt.op = "set_slot_new_foreign" ->
              [n EXCEPT !.vm.slots[stmt.slot] = Foreign(SourceTy, "new"),
                        !.vm.foreign_allocs = @ + 1]
         [] stmt.op = "write_foreign_object" ->
              [n EXCEPT !.vm.heap = @ \cup {[obj |-> "new",
                                            object |-> Unwrap(c.frame.result).val,
                                            type_id |-> SourceTy]}]
         [] stmt.op = "set_slot_string" ->
              [n EXCEPT !.vm.slots[stmt.slot] =
                            [kind |-> "string", msg |-> Unwrap(c.frame.result).val]]

RECURSIVE Run(_, _, _)
\* the generated code run to its end
Run(c, inp, prog) == IF Done(c, prog) THEN c ELSE Run(Exec(c, inp, prog), inp, prog)

\* the state of a call at its entry
EntryState(slots, hook) ==
    [pc |-> 1, pending |-> <<>>,
     vm |-> [slots |-> slots, fiber_aborted |-> FALSE, abort_msg |-> None,
             user_data |-> "session", hook |-> hook, heap |-> {}, foreign_allocs |-> 0],
     frame |-> [conf |-> None, vm_rc |-> FALSE, calcs |-> <<>>, args |-> <<>>,
                ret |-> None, result |-> None, inst |-> None, self |-> None,
                found |-> None,
                borrows |-> {}],
     obs |-> [native_calls |-> 0, native_args |-> <<>>, native_path |-> "",
              native_receiver |-> None,
              ret_written |-> FALSE, panicked |-> FALSE, panic_msg |-> None,
              failed |-> None, outcome |-> "running", reads |-> <<>>,
              entry_hook |-> hook, entry_user_data |-> "session",
              entry_slots |-> slots]]

-----------------------------------------------------------------------------
(***************************************************************************)
(* wren_impl on one impl block, then the generated allocate() and          *)
(* construct().                                                            *)
(***************************************************************************)
ParamNames == <<"a", "b", "c", "d", "e">>

\* n parameters a, b, ..: the ones named in object have a logical type
Params(n, object) ==
    [i \in 1..n |-> [pat |-> ParamNames[i],
                     ty |-> IF InSeq(ParamNames[i], object) THEN SourceTy ELSE PlainTy]]

\* a declared method; recv is "self", "none" (no input at all) or the type of
\* the first typed input, which then is the receiver
Method(name, flags, recv, n, object, output) ==
    [name |-> name,
     allocator |-> "allocator" \in flags,
     constructor |-> "constructor" \in flags,
     instance |-> "instance" \in flags,
     getter |-> "getter" \in flags,
     setter |-> "setter" \in flags,
     ignore |-> "ignore" \in flags,
     object |-> object,
     has_self |-> recv = "self",
     inputs |-> IF recv \in {"self", "none"} THEN Params(n, object)
                ELSE <<[pat |-> "this", ty |-> recv]>> \o Params(n, object),
     output |-> output]

Flags == {"allocator", "constructor", "instance", "getter", "setter", "ignore"}

ObjectLists == {<<>>, <<"a">>, <<"zz">>, <<"b", "a">>}

\* every shape of a single declared method with at most maxp parameters
FullDecls(maxp) ==
    {Method("f", fl, recv, n, ob, out) :
        fl \in SUBSET Flags, recv \in {"self", ClassTy, RefClassTy, PlainTy},
        n \in 0..maxp, ob \in ObjectLists, out \in Outputs}
    \cup {Method("f", fl, "none", 0, ob, out) :
        fl \in SUBSET Flags, ob \in ObjectLists, out \in Outputs}

\* the methods impl blocks of several methods are made of
SmallDecls ==
    {Method("f", {}, "self", 0, <<>>, "Default"),
     Method("getter_f", {}, "self", 0, <<>>, "Default"),
     Method("f", {"instance"}, "self", 1, <<"a">>, "OtherPath"),
     Method("f", {"getter"}, "self", 0, <<>>, "OtherPath"),
     Method("g", {"getter", "instance"}, "self", 1, <<>>, "OtherPath"),
     Method("f", {"setter"}, RefClassTy, 1, <<>>, "Default"),
     Method("g", {"setter"}, "self", 0, <<>>, "Unit"),
     Method("g", {"setter"}, "self", 1, <<>>, "OtherPath"),
     Method("alloc", {"allocator"}, "none", 0, <<>>, "Infer"),
     Method("alloc2", {"allocator"}, "self", 1, <<>>, "OtherPath"),
     Method("new", {"constructor"}, "self", 1, <<>>, "Default"),
     Method("new2", {"constructor", "instance"}, "self", 0, <<>>, "Unit"),
     Method("h", {"getter", "ignore"}, "self", 1, <<>>, "Default"),
     Method("h", {}, "none", 0, <<"zz">>, "Default"),
     Method("h", {}, "self", 1, <<"zz">>, "Default")}

RECURSIVE SeqsUpTo(_, _)
SeqsUpTo(S, n) ==
    IF n = 0 THEN {<<>>}
    ELSE SeqsUpTo(S, n - 1) \cup {Append(q, x) : q \in {r \in SeqsUpTo(S, n - 1) : Len(r) = n - 1}, x \in S}

\* a plain method, a getter and a setter of one name, static or instance
Accessors(fl) ==
    {Method("f", fl, "self", 0, <<>>, "OtherPath"),
     Method("f", fl \cup {"getter"}, "self", 0, <<>>, "OtherPath"),
     Method("f", fl \cup {"setter"}, "self", 1, <<>>, "Unit")}

\* the blocks that declare the three of them, in any order
AccessorBlocks ==
    {<<a, b, c>> : a, b, c \in Accessors({}) \cup Accessors({"instance"})}

\* the impl blocks: one method of any shape, up to maxb of the small set, or
\* three accessors of one name
ImplBlocks(maxp, maxb) ==
    {<<m>> : m \in FullDecls(maxp)} \cup SeqsUpTo(SmallDecls, maxb) \cup AccessorBlocks

\* the slots a construct() call may find
ConstructSlots == [0..MaxParams -> {Num, Foreign(SourceTy, 1)}]

InitDecl ==
    /\ items \in ImplBlocks(MaxParams, MaxBatch)
    /\ expansion = None
    /\ allocated = None
    /\ constructed = None
    \* the other components are not in use
    /\ st = [shape |-> "Unit", statics |-> <<>>]
    /\ logical = <<>>
    /\ class_rec = None
    /\ inst_rec = None
    /\ rebuilt = None
    /\ batch = <<>>
    /\ program = <<>>
    /\ inputs = None
    /\ pc = 0
    /\ pending = <<>>
    /\ vm = None
    /\ frame = None
    /\ obs = None
    /\ fo_object = <<>>
    /\ boxes = {}
    /\ dropped = <<>>
    /\ finalized = <<>>

\* the attribute macro runs on the impl block
WrenImpl ==
    /\ expansion = None
    /\ expansion' = Some(wren_impl(items))
    /\ UNCHANGED <<items, allocated, constructed>>
    /\ UNCHANGED <<splitVars, callVars, finVars>>

\* V2Class::allocate() of the generated impl: #allocator_call
Allocate ==
    /\ IsSome(expansion) /\ Unwrap(expansion).generated
    /\ allocated = None
    /\ allocated' =
         Some(IF Unwrap(Unwrap(expansion).allocate) = "___default_alloc"
              THEN [by |-> "___default_alloc",
                    class |-> generate_class_from(DeclStruct, DefaultSource)]
              ELSE [by |-> Unwrap(Unwrap(expansion).allocate),
                    class |-> <<"returned by", Unwrap(Unwrap(expansion).allocate)>>])
    /\ UNCHANGED <<items, expansion, constructed>>
    /\ UNCHANGED <<splitVars, callVars, finVars>>

\* ForeignItem::construct(class, vm) of the generated impl: #constructor_call
Construct ==
    /\ IsSome(expansion) /\ Unwrap(expansion).generated
    /\ constructed = None
    /\ \E slots \in ConstructSlots, native \in {"ok", "err", "panic"} :
         LET ctor == validate(items).constructor
             prog == construct_stmts(ctor) \o <<[op |-> "end_vm_fn"]>>
             inp == [kind |-> "constructor", session_alive |-> TRUE,
                     class_registered |-> TRUE, native |-> native, panic_abi |-> "aborted"]
             end == Run(EntryState(slots, "default"), inp, prog)
         IN constructed' = Some([by |-> Unwrap(Unwrap(expansion).construct),
                                 result |-> end.frame.result,
                                 reads |-> end.obs.reads,
                                 panicked |-> end.obs.panicked])
    /\ UNCHANGED <<items, expansion, allocated>>
    /\ UNCHANGED <<splitVars, callVars, finVars>>

NextDecl == WrenImpl \/ Allocate \/ Construct

-----------------------------------------------------------------------------
(***************************************************************************)
(* One call of a generated adapter by the VM.                              *)
(***************************************************************************)

MaxArgs == 2

\* the method of a call: static or instance method, or constructor, with
\* parameters that are plain (FALSE) or object (TRUE) parameters
CallDecl(kind, recv, objs) ==
    LET found == static_indices(objs, TRUE)
        \* object(..) names the object parameters last first
        object == [k \in 1..Len(found) |-> ParamNames[found[Len(found) + 1 - k]]]
    IN Method("m",
              CASE kind = "static" -> {}
                [] kind = "instance" -> {"instance"}
                [] kind = "constructor" -> {"constructor"},
              IF recv = "self" THEN "self"
              ELSE IF kind = "instance" THEN WrapperTy ELSE RefClassTy,
              Len(objs), object,
              IF kind = "constructor" THEN "Default" ELSE "OtherPath")

CallBatches ==
    {<<>>} \cup {<<CallDecl(kind, recv, objs)>> :
                    kind \in {"static", "instance", "constructor"},
                    recv \in {"self", "typed"},
                    objs \in UNION {BoolSeqs(n) : n \in 0..MaxArgs}}
    \* a method with no self and no parameter at all
    \cup {<<Method("m", fl, "none", 0, <<>>, "OtherPath")>> : fl \in {{}, {"instance"}}}

\* the method an adapter of the block calls: the one declared, or none for
\* the synthesized constructor
CallFnOf(b) ==
    LET v == validate(b)
    IN IF v.others # <<>> THEN Some(v.others[1]) ELSE v.constructor

CallKindOf(b) ==
    IF b = <<>> \/ b[1].constructor THEN "constructor"
    ELSE IF b[1].instance THEN "instance" ELSE "static"

\* the adapter wren_impl generates for the block
AdapterOf(b) ==
    LET v == validate(b)
    IN IF ~v.ok THEN <<>>     \* the diagnostics alone: nothing to call
       ELSE IF v.others # <<>> THEN gen_native_vm_fn(v.others[1])
       ELSE constructor_adapter(v.constructor)

\* what the slots of a call may hold: slot 0 holds the receiver object of an
\* instance method (object 0), and the argument slots a number, the receiver
\* object itself, another object of the same class, or an object of another class
ArgVals(kind) ==
    {Num, Foreign(SourceTy, 1), Foreign(OtherTy, 2)}
    \cup (IF kind = "instance" THEN {Foreign(SourceTy, 0)} ELSE {})

WellTyped(b, slots) ==
    IF b = <<>> \/ b[1].inputs = <<>> THEN TRUE
    ELSE \A i \in 1..Len(NonReceiverArgs(b[1])) :
            slots[i] = IF NonReceiverArgs(b[1])[i].ty = PlainTy THEN Num
                       ELSE Foreign(SourceTy, 1)

CallSlots(b, receiver_ok) ==
    LET kind == CallKindOf(b)
        n == IF b = <<>> \/ b[1].inputs = <<>> THEN 0 ELSE Len(NonReceiverArgs(b[1]))
        slot0 == IF kind = "instance" /\ receiver_ok THEN Foreign(SourceTy, 0)
                 ELSE IF kind = "instance" THEN Foreign(OtherTy, 2)
                 ELSE [kind |-> "class"]
    IN {[i \in 0..n |-> IF i = 0 THEN slot0 ELSE a[i]] : a \in [1..n -> ArgVals(kind)]}

\* what leaving an extern "C" function by a panic does: the process aborts, or
\* (undefined behaviour in older toolchains) the unwind goes on into the VM's frames
PanicAbis == {"aborted", "unwound_into_vm"}

Inputs(kind) ==
    {[kind |-> kind, session_alive |-> TRUE, class_registered |-> TRUE,
      native |-> nat, panic_abi |-> abi, receiver_ok |-> TRUE] :
        nat \in {"ok", "panic"} \cup (IF kind = "constructor" THEN {"err"} ELSE {}),
        abi \in PanicAbis}
    \cup {[kind |-> kind, session_alive |-> FALSE, class_registered |-> TRUE,
           native |-> "ok", panic_abi |-> abi, receiver_ok |-> TRUE] : abi \in PanicAbis}
    \cup (IF kind = "constructor" THEN {}
          ELSE {[kind |-> kind, session_alive |-> TRUE, class_registered |-> FALSE,
                 native |-> "ok", panic_abi |-> abi, receiver_ok |-> TRUE] : abi \in PanicAbis})
    \cup (IF kind # "instance" THEN {}
          ELSE {[kind |-> kind, session_alive |-> TRUE, class_registered |-> TRUE,
                 native |-> "ok", panic_abi |-> abi, receiver_ok |-> FALSE] : abi \in PanicAbis})

\* an input that stops the call before the marshaling body
EarlyFault(i) == ~i.session_alive \/ ~i.class_registered \/ ~i.receiver_ok

Hooks == {"default", "custom"}

InitCall ==
    /\ batch \in CallBatches
    /\ program = AdapterOf(batch)
    /\ inputs \in Inputs(CallKindOf(batch))
    /\ \E slots \in CallSlots(batch, inputs.receiver_ok), hook \in Hooks :
         /\ (EarlyFault(inputs) \/ inputs.native # "ok") =>
                (hook = "default" /\ (EarlyFault(inputs) => WellTyped(batch, slots)))
         /\ (inputs.native = "ok" /\ ~EarlyFault(inputs)) => inputs.panic_abi = "aborted"
         /\ LET e == EntryState(slots, hook)
            IN /\ pc = e.pc
               /\ pending = e.pending
               /\ vm = e.vm
               /\ frame = e.frame
               /\ obs = e.obs
    \* the other components are not in use
    /\ st = [shape |-> "Unit", statics |-> <<>>]
    /\ logical = <<>>
    /\ class_rec = None
    /\ inst_rec = None
    /\ rebuilt = None
    /\ items = <<>>
    /\ expansion = None
    /\ allocated = None
    /\ constructed = None
    /\ fo_object = <<>>
    /\ boxes = {}
    /\ dropped = <<>>
    /\ finalized = <<>>

Current == [pc |-> pc, pending |-> pending, vm |-> vm, frame |-> frame, obs |-> obs]

StepTo(n) ==
    /\ pc' = n.pc
    /\ pending' = n.pending
    /\ vm' = n.vm
    /\ frame' = n.frame
    /\ obs' = n.obs
    /\ UNCHANGED <<batch, program, inputs>>
    /\ UNCHANGED <<splitVars, declVars, finVars>>

Running == ~Done(Current, program)

PrologueOps == {"read_user_data", "upgrade", "set_hook", "borrow_vm", "ensure_slots",
                "get_slot_foreign_mut", "use_class_mut", "create"}
ExtractOps == {"calc", "get_slot_value", "get_slot_object", "into_source"}
FailureOps == {"to_vm_msg", "abort_fiber", "return", "return_err", "panic"}
CallOps == {"call", "to_vm_ret", "return_ret", "default_constructor", "end_vm_fn"}
InstallOps == {"match_create", "set_slot_new_foreign", "write_foreign_object", "set_slot_string"}
EpilogueOps == {"take_hook", "write_user_data", "set_user_data", "exit"}

\* session recovery, panic hook, borrows, receiver and class lookup
StepPrologue ==
    /\ Running /\ Cur(Current, program).op \in PrologueOps
    /\ StepTo(Exec(Current, inputs, program))

\* one cursor or one extraction of the marshaling body
StepExtract ==
    /\ Running /\ Cur(Current, program).op \in ExtractOps
    /\ StepTo(Exec(Current, inputs, program))

\* one statement of the else block of a failed extraction
StepFailure ==
    /\ Running /\ Cur(Current, program).op \in FailureOps
    /\ StepTo(Exec(Current, inputs, program))

\* the native call and what is done with its value
StepCall ==
    /\ Running /\ Cur(Current, program).op \in CallOps
    /\ StepTo(Exec(Current, inputs, program))

\* the constructor adapter installs the instance or reports the error
StepInstall ==
    /\ Running /\ Cur(Current, program).op \in InstallOps
    /\ StepTo(Exec(Current, inputs, program))

\* panic hook and user data restored, return to the VM
StepEpilogue ==
    /\ Running /\ Cur(Current, program).op \in EpilogueOps
    /\ StepTo(Exec(Current, inputs, program))

NextCall ==
    StepPrologue \/ StepExtract \/ StepFailure \/ StepCall \/ StepInstall \/ StepEpilogue

-----------------------------------------------------------------------------
(***************************************************************************)
(* The finalizer _destructor on the storage of foreign objects.            *)
(***************************************************************************)

MaxObjects == 3
MaxFinalize == 3

Objects == 1..MaxObjects

\* Box::into_raw(Box::new(object)) of object o: a pointer no other storage holds
PtrOf(o) == o

NullPtr == 0

InitFin ==
    /\ fo_object \in [Objects -> {NullPtr} \cup {PtrOf(o) : o \in Objects}]
    /\ \A o \in Objects : fo_object[o] \in {NullPtr, PtrOf(o)}
    /\ boxes = {fo_object[o] : o \in Objects} \ {NullPtr}
    /\ dropped = [o \in Objects |-> 0]
    /\ finalized = [o \in Objects |-> 0]
    \* the other components are not in use
    /\ st = [shape |-> "Unit", statics |-> <<>>]
    /\ logical = <<>>
    /\ class_rec = None
    /\ inst_rec = None
    /\ rebuilt = None
    /\ items = <<>>
    /\ expansion = None
    /\ allocated = None
    /\ constructed = None
    /\ batch = <<>>
    /\ program = <<>>
    /\ inputs = None
    /\ pc = 0
    /\ pending = <<>>
    /\ vm = None
    /\ frame = None
    /\ obs = None

\* DOUBLE FREE BUG: the pointer is left in the storage after the drop
destructor_keeps_pointer(ptr) ==
    [object |-> ptr, drops |-> IF ptr # NullPtr THEN {ptr} ELSE {}]

\* the body of _destructor on the pointer read from the storage: the record
\* is dropped when the pointer is not null, and null is written back
destructor(ptr) ==
    [object |-> NullPtr, drops |-> IF ptr # NullPtr THEN {ptr} ELSE {}]

\* extern "C" fn _destructor(data), called by the VM on foreign object o
Finalize(o) ==
    /\ finalized[o] < MaxFinalize
    /\ finalized' = [finalized EXCEPT ![o] = @ + 1]
    /\ boxes' = boxes \ destructor(fo_object[o]).drops
    /\ dropped' = [p \in Objects |->
                     IF PtrOf(p) \in destructor(fo_object[o]).drops
                     THEN dropped[p] + 1 ELSE dropped[p]]
    /\ fo_object' = [fo_object EXCEPT ![o] = destructor(@).object]
    /\ UNCHANGED <<splitVars, declVars, callVars>>

NextFin == \E o \in Objects : Finalize(o)

-----------------------------------------------------------------------------

SpecSplit ==
    InitSplit /\ [][NextSplit]_vars

SpecDecl ==
    InitDecl /\ [][NextDecl]_vars

SpecCall ==
    InitCall /\ [][NextCall]_vars

SpecFin ==
    InitFin /\ [][NextFin]_vars

-----------------------------------------------------------------------------
(***************************************************************************)
(* Properties.                                                             *)
(***************************************************************************)
\* the method the adapter of the call was generated for
CallFn == Unwrap(CallFnOf(batch))

HasCallFn == IsSome(CallFnOf(batch))

IsMethodCall == HasCallFn /\ CallKindOf(batch) \in {"static", "instance"}

Finished == Done(Current, program)

\* the parameters of the method in the order the body extracts them: the
\* plain ones, then the object ones
ExtractionOrder(f) == f.normal_params \o f.object_params

IsPlainParam(f, p) == \E k \in 1..Len(f.normal_params) : f.normal_params[k] = p

\* the slot of parameter p holds no value of its declared type
Mismatch(p) ==
    LET held == vm.slots[p[1] + 1]
    IN IF p[2].ty = PlainTy THEN held.kind # "num"
       ELSE ~(held.kind = "foreign" /\ held.ty = p[2].ty)

\* the slot of object parameter p holds a foreign object of another class
WrongClass(p) ==
    LET held == vm.slots[p[1] + 1]
    IN p[2].ty # PlainTy /\ held.kind = "foreign" /\ held.ty # p[2].ty

\* the first parameter, in extraction order, whose slot does not fit
FirstMismatch(f) ==
    LET order == ExtractionOrder(f)
        k == CHOOSE i \in 1..Len(order) :
                Mismatch(order[i]) /\ \A j \in 1..(i - 1) : ~Mismatch(order[j])
    IN order[k]

MessageFor(p) == [kind |-> "string", msg |-> FailMsg(p[2].ty, p[1] + 1)]

\* C1: when the slot of a plain parameter at position p yields no value of
\* the declared type, a static or instance adapter writes to slot 0 a message
\* naming the type and slot p+1, then aborts the fiber on slot 0, and returns
\* without panicking; the native method is not invoked and no return value
\* is written.
C1_PlainMismatchAborts ==
    (IsMethodCall /\ ~EarlyFault(inputs)
        /\ \E k \in 1..Len(CallFn.normal_params) : Mismatch(CallFn.normal_params[k]))
    => LET p == FirstMismatch(CallFn)
       IN /\ IsPlainParam(CallFn, p)
          /\ obs.native_calls = 0
          /\ ~obs.ret_written
          /\ ~obs.panicked
          /\ vm.fiber_aborted => (vm.slots[0] = MessageFor(p) /\ vm.abort_msg = Some(MessageFor(p)))
          /\ Finished => (vm.fiber_aborted /\ obs.outcome = "returned"
                          /\ obs.failed = Some([idx |-> p[1], is_obj |-> FALSE]))

\* an adapter that returned after a plain parameter behind an object
\* parameter found a wrong value in its slot
C1_Witness ==
    /\ IsMethodCall /\ Finished
    /\ vm.fiber_aborted
    /\ IsSome(obs.failed) /\ ~Unwrap(obs.failed).is_obj /\ Unwrap(obs.failed).idx >= 1
    /\ Len(CallFn.object_params) >= 1

\* C2: a panic of native code during an adapter call is caught at the
\* adapter boundary: the adapter returns to the VM, no return value is
\* written, and the process does not terminate.
C2_PanicContained ==
    (HasCallFn /\ obs.panicked /\ obs.native_calls >= 1)
    => /\ ~obs.ret_written
       /\ obs.outcome \in {"running", "returned"}

C4_FinalizeOnce ==
    \A o \in DOMAIN fo_object :
        /\ dropped[o] <= 1
        /\ finalized[o] >= 1 => (fo_object[o] = NullPtr /\ PtrOf(o) \notin boxes)
        /\ finalized[o] = 0 => (dropped[o] = 0 /\ (fo_object[o] = PtrOf(o) <=> PtrOf(o) \in boxes))
        /\ dropped[o] = 1 => finalized[o] >= 1

\* one storage finalized twice after holding a live pointer, another
\* finalized while holding null
C4_Witness ==
    \E o, q \in DOMAIN fo_object :
        /\ finalized[o] >= 2 /\ dropped[o] = 1
        /\ finalized[q] >= 1 /\ dropped[q] = 0

\* the number of non-receiver parameters a method declares
NonReceiverCount(m) ==
    IF m.has_self THEN Len(m.inputs)
    ELSE IF m.inputs = <<>> THEN 0 ELSE Len(m.inputs) - 1

IndexSet(params) == {params[k][1] : k \in 1..Len(params)}

\* C9: for an accepted method with n non-receiver parameters the plain and
\* the object parameter indices are disjoint and together are 0..n-1, in any
\* declaration order; the arity is n, the number of plain plus the number of
\* object parameters; the parameter at index i is read through slot i+1 and
\* slot 0 is never read as an argument.
C9_IndexPartition ==
    HasCallFn =>
        LET f == CallFn
            n == NonReceiverCount(batch[1])
            plain == IndexSet(f.normal_params)
            object == IndexSet(f.object_params)
        IN /\ plain \cap object = {}
           /\ plain \cup object = 0..(n - 1)
           /\ Cardinality(plain) = Len(f.normal_params)
           /\ Cardinality(object) = Len(f.object_params)
           /\ arity(f) = n
           /\ arity(f) = Len(f.normal_params) + Len(f.object_params)
           /\ \A i \in DOMAIN frame.calcs : frame.calcs[i].slot = i + 1
           /\ \A k \in 1..Len(obs.reads) :
                 IsSome(obs.reads[k].arg)
                    => (obs.reads[k].slot = Unwrap(obs.reads[k].arg) + 1 /\ obs.reads[k].slot # 0)
           /\ \A i \in DOMAIN frame.args :
                 (frame.args[i].slot = i + 1 /\ frame.args[i].val = vm.slots[i + 1])
           /\ obs.native_calls >= 1 =>
                 (/\ Len(obs.native_args) = n
                  /\ \A k \in 1..n : obs.native_args[k].val = vm.slots[k]
                  /\ {obs.reads[k].slot : k \in {j \in 1..Len(obs.reads) : IsSome(obs.reads[j].arg)}}
                        = 1..n)

\* the native method was invoked with an object, a plain and an object
\* argument, or a plain, an object and a plain one
C9_Witness ==
    /\ HasCallFn /\ obs.native_calls = 1
    /\ Len(CallFn.normal_params) >= 1 /\ Len(CallFn.object_params) >= 1
    /\ \E k \in 1..Len(CallFn.object_params) : \E j \in 1..Len(CallFn.normal_params) :
          CallFn.object_params[k][1] < CallFn.normal_params[j][1]
    /\ Len(obs.native_args) = NonReceiverCount(batch[1])
    /\ ~batch[1].has_self

Flagged(flag) ==
    {i \in DOMAIN items :
        CASE flag = "allocator" -> items[i].allocator
          [] flag = "constructor" -> items[i].constructor}

Expanded == IsSome(expansion)

Generated == Expanded /\ Unwrap(expansion).generated

\* every failure one of the checks finds when it is run on its own method
FailuresPresent ==
    (IF Cardinality(Flagged("allocator")) > 1
     THEN {Err("expected_0_or_1_allocators", "", Cardinality(Flagged("allocator")))} ELSE {})
    \cup (IF Cardinality(Flagged("constructor")) > 1
          THEN {Err("expected_0_or_1_constructors", "", Cardinality(Flagged("constructor")))}
          ELSE {})
    \cup UNION {SeqToSet(validate_allocator(items[i]).errors) : i \in Flagged("allocator")}
    \cup UNION {SeqToSet(validate_constructor(items[i]).errors) : i \in Flagged("constructor")}
    \cup UNION {SeqToSet(try_from(items[i]).errors) : i \in {j \in DOMAIN items : IsOther(items[j])}}

\* C5: validation of an impl block reports every failure present in the
\* block together; none is left out because another was found first.
C5_AllFailuresReported ==
    Expanded => \A e \in FailuresPresent : InSeq(e, Unwrap(expansion).diagnostics)

\* a getter with a non-receiver parameter, or a setter without exactly one
\* non-receiver parameter or with a return type
ViolatesAccessorRule(m) ==
    \/ m.getter /\ NonReceiverCount(m) # 0
    \/ m.setter /\ ~(NonReceiverCount(m) = 1 /\ m.output \in {"Default", "Unit"})

\* C6 as stated: a getter or setter that breaks the rule makes the
\* validation of the whole block fail.
C6_ViolationRejectsBatch ==
    Expanded =>
        ((\E i \in DOMAIN items : ViolatesAccessorRule(items[i])) => ~Generated)

\* C6 amended: a getter or setter that breaks the rule makes the validation
\* of the whole block fail when the method is flagged constructor, or is
\* flagged neither ignore nor allocator; every accessor resolved in an
\* accepted block has arity 0 (getter) or arity 1 and no return value
\* (setter), with a self receiver or a typed first parameter as receiver.
C6_CheckedViolationRejectsBatch ==
    Expanded =>
        /\ (\E i \in DOMAIN items :
                /\ ViolatesAccessorRule(items[i])
                /\ (items[i].constructor \/ (~items[i].ignore /\ ~items[i].allocator)))
           => (~Generated /\ Unwrap(expansion).diagnostics # <<>>)
        /\ Generated =>
              \A k \in 1..Len(validate(items).others) :
                 LET f == validate(items).others[k]
                 IN /\ f.is_getter => arity(f) = 0
                    /\ f.is_setter => (arity(f) = 1 /\ f.func.output \in {"Default", "Unit"})

\* a block whose one method is a setter with a typed receiver, one parameter
\* and a return type, which is all that is wrong with it, was rejected
C6_Witness ==
    /\ Expanded /\ ~Generated
    /\ Len(items) = 1
    /\ items[1].setter /\ ~items[1].getter /\ ~items[1].has_self
    /\ ~items[1].ignore /\ ~items[1].allocator /\ ~items[1].constructor
    /\ NonReceiverCount(items[1]) = 1
    /\ items[1].output = "OtherPath"
    /\ Len(Unwrap(expansion).diagnostics) = 1

\* a method that is resolved is valid: it has a receiver, every name of
\* object(..) is one of its non-receiver parameters, and it keeps the
\* accessor rule
WellFormed(m) ==
    /\ m.has_self \/ m.inputs # <<>>
    /\ \A k \in 1..Len(m.object) :
          \E j \in 1..Len(NonReceiverArgs(m)) : NonReceiverArgs(m)[j].pat = m.object[k]
    /\ ~ViolatesAccessorRule(m)

NoRoleDeclared ==
    /\ Flagged("allocator") = {} /\ Flagged("constructor") = {}
    /\ \A i \in DOMAIN items : items[i].ignore \/ WellFormed(items[i])

\* C7: a block with no allocator and no constructor method whose other
\* methods are valid is accepted and code is generated; allocate() returns the
\* class record made from the default value of the type, and construct()
\* returns Ok of the instance record made from the default value, reading no
\* slot.
C7_DefaultRoles ==
    (Expanded /\ NoRoleDeclared) =>
        /\ Generated
        /\ Unwrap(expansion).diagnostics = <<>>
        /\ IsSome(allocated) =>
              Unwrap(allocated).class = <<"d1", "d3">>
        /\ IsSome(constructed) =>
              /\ Unwrap(constructed).result = Some([ok |-> TRUE, val |-> <<"d2">>])
              /\ Unwrap(constructed).reads = <<>>
              /\ ~Unwrap(constructed).panicked

\* allocate() and construct() of a block with two valid methods and no role
\* have both run
C7_Witness ==
    /\ Expanded /\ NoRoleDeclared
    /\ Len(items) = 2
    /\ IsSome(allocated) /\ IsSome(constructed)

\* C10: a block is accepted only with at most one allocator and at most one
\* constructor method, two or more of either being rejected; an accepted
\* block has exactly one allocate and one construct operation, the declared
\* one or the synthesized default.
C10_OneAllocateOneConstruct ==
    Expanded =>
        LET e == Unwrap(expansion)
            allocs == Flagged("allocator")
            ctors == Flagged("constructor")
        IN /\ Generated => (Cardinality(allocs) <= 1 /\ Cardinality(ctors) <= 1)
           /\ (Cardinality(allocs) >= 2 \/ Cardinality(ctors) >= 2)
                 => (~Generated /\ e.diagnostics # <<>>)
           /\ Generated =>
                 /\ IsSome(e.allocate) /\ IsSome(e.construct)
                 /\ allocs = {} => Unwrap(e.allocate) = "___default_alloc"
                 /\ \A i \in allocs : Unwrap(e.allocate) = items[i].name
                 /\ ctors = {} => Unwrap(e.construct) = "___default_constructor"
                 /\ \A i \in ctors :
                       Unwrap(e.construct) \in {"vm_" \o items[i].name,
                                                "vm_getter_" \o items[i].name,
                                                "vm_setter_" \o items[i].name}
                 /\ IsSome(allocated) => Unwrap(allocated).by = Unwrap(e.allocate)
                 /\ IsSome(constructed) => Unwrap(constructed).by = Unwrap(e.construct)

\* allocate() and construct() of a block declaring one allocator and one
\* constructor have both run
C10_Witness ==
    /\ Generated
    /\ Cardinality(Flagged("allocator")) = 1 /\ Cardinality(Flagged("constructor")) = 1
    /\ Len(items) = 2
    /\ IsSome(allocated) /\ Unwrap(allocated).by # "___default_alloc"
    /\ IsSome(constructed) /\ Unwrap(constructed).by # "___default_constructor"

\* the valid impl of the block
Valid == validate(items)

\* the number of methods among the first i that are resolved with the others
OtherIndex(i) == Cardinality({j \in 1..i : IsOther(items[j])})

\* where WrenObjectValidImpl keeps method i of an accepted block
Places(i) ==
    (IF items[i].allocator /\ IsSome(Valid.allocator)
        /\ Unwrap(Valid.allocator).name = items[i].name
     THEN {"allocator"} ELSE {})
    \cup (IF items[i].constructor /\ IsSome(Valid.constructor)
             /\ source_name(Unwrap(Valid.constructor)) = items[i].name
          THEN {"constructor"} ELSE {})
    \cup (IF IsOther(items[i]) /\ OtherIndex(i) <= Len(Valid.others)
          THEN LET f == Valid.others[OtherIndex(i)]
               IN IF source_name(f) # items[i].name THEN {}
                  ELSE (IF f.is_getter THEN {"getter"} ELSE {})
                       \cup (IF f.is_setter THEN {"setter"} ELSE {})
                       \cup (IF ~f.is_getter /\ ~f.is_setter /\ f.is_static
                             THEN {"plain static"} ELSE {})
                       \cup (IF ~f.is_getter /\ ~f.is_setter /\ ~f.is_static
                             THEN {"plain instance"} ELSE {})
          ELSE {})

\* the roles the flags of a method give it: a method flagged ignore that is
\* neither allocator nor constructor is left out of the valid impl
HeldRoles(m) ==
    IF m.ignore /\ ~m.allocator /\ ~m.constructor THEN {}
    ELSE {r \in {"allocator", "constructor", "getter", "setter"} :
            CASE r = "allocator" -> m.allocator
              [] r = "constructor" -> m.constructor
              [] r = "getter" -> m.getter
              [] r = "setter" -> m.setter}
         \cup (IF m.allocator \/ m.constructor \/ m.getter \/ m.setter THEN {}
               ELSE IF m.instance THEN {"plain instance"} ELSE {"plain static"})

\* C11 as stated: every method of an accepted block has exactly one of the
\* six roles, none holds two (constructor and getter, allocator and setter)
\* and none is left without a role.
C11_ExactlyOneRole ==
    Generated => \A i \in DOMAIN items : Cardinality(HeldRoles(items[i])) = 1

\* C11 amended: every method of an accepted block that is flagged allocator,
\* constructor or not ignore is kept in exactly one place of the valid impl,
\* as the allocator, as the constructor, or among the others as exactly one
\* of getter, setter, plain static, plain instance; a method flagged ignore
\* and neither allocator nor constructor is kept nowhere; the getter and
\* setter flags may accompany the allocator or constructor flag.
C11_OnePlacePerMethod ==
    Generated =>
        /\ Len(Valid.others) = Cardinality({j \in DOMAIN items : IsOther(items[j])})
        /\ \A i \in DOMAIN items :
              IF items[i].ignore /\ ~items[i].allocator /\ ~items[i].constructor
              THEN Places(i) = {}
              ELSE /\ Cardinality(Places(i)) = 1
                   /\ items[i].allocator => Places(i) = {"allocator"}
                   /\ items[i].constructor => Places(i) = {"constructor"}

\* an accepted block with a method flagged constructor and getter
C11_Witness ==
    /\ Generated
    /\ \E i \in DOMAIN items :
          /\ items[i].constructor /\ items[i].getter
          /\ Places(i) = {"constructor"}
          /\ Unwrap(Valid.constructor).is_getter

\* the receiver of a method is the class type, by value or by reference
ReceivesClass(m) ==
    \/ m.has_self /\ ~m.instance
    \/ ~m.has_self /\ m.inputs # <<>> /\ m.inputs[1].ty \in {ClassTy, RefClassTy}

\* every method but method i is resolved with the others and is valid, or
\* is left out
RestIsValid(i) ==
    \A j \in DOMAIN items \ {i} :
        /\ ~items[j].allocator /\ ~items[j].constructor
        /\ items[j].ignore \/ WellFormed(items[j])

\* C12: a constructor is accepted only with the class type as receiver (by
\* value or by reference) and the return type Result<Instance, String>; an
\* absent return type and the placeholder _ are completed to that type, any
\* other return type is rejected.
C12_ConstructorShape ==
    Expanded =>
        \A i \in Flagged("constructor") :
            LET m == items[i]
            IN /\ Generated =>
                    /\ m.has_self \/ m.inputs[1].ty \in {ClassTy, RefClassTy}
                    /\ ReceivesClass(m)
                    /\ m.output \in {"Default", "Infer", "ResultInstance"}
                    /\ Unwrap(Valid.constructor).func.output = "ResultInstance"
               /\ (RestIsValid(i) /\ WellFormed(m) /\ ~m.allocator) =>
                    /\ Generated <=> (ReceivesClass(m)
                                      /\ m.output \in {"Default", "Infer", "ResultInstance"})
                    /\ m.output \notin {"Default", "Infer", "ResultInstance"} =>
                          Unwrap(expansion).diagnostics = <<Err("constructor_return", m.name, 0)>>
                    /\ (m.output \in {"Default", "Infer", "ResultInstance"} /\ ~ReceivesClass(m)) =>
                          Unwrap(expansion).diagnostics = <<Err("constructor_receiver", m.name, 0)>>

\* a constructor receiving &SourceClass as first parameter and returning _
\* was accepted
C12_Witness ==
    /\ Generated
    /\ \E i \in Flagged("constructor") :
          /\ ~items[i].has_self /\ items[i].inputs[1].ty = RefClassTy
          /\ items[i].output = "Infer"
          /\ Unwrap(Valid.constructor).func.output = "ResultInstance"

TakesParameters(m) == m.has_self \/ m.inputs # <<>>

C14_DiagnosticsOnly ==
    Expanded =>
        LET e == Unwrap(expansion)
        IN /\ ~Valid.ok <=> e.diagnostics # <<>>
           /\ e.diagnostics # <<>> =>
                /\ e.diagnostics = Valid.errors
                /\ ~e.generated
                /\ e.static_fns = <<>> /\ e.instance_fns = <<>>
                /\ e.allocator_fn = None /\ e.constructor_fn = None
                /\ ~e.finalizer
                /\ e.function_pointers = <<>>
                /\ e.allocate = None /\ e.construct = None
                /\ allocated = None /\ constructed = None

\* a block of a valid method and a method with an error was expanded
C14_Witness ==
    /\ Expanded /\ ~Generated
    /\ Len(items) = 2
    /\ \E i, j \in DOMAIN items :
          /\ IsOther(items[i]) /\ WellFormed(items[i])
          /\ IsOther(items[j]) /\ ~WellFormed(items[j])
    /\ Len(Unwrap(expansion).diagnostics) >= 1

\* the name of the function generated for a method
GeneratedName(m) ==
    IF m.getter THEN "getter_" \o m.name
    ELSE IF m.setter THEN "setter_" \o m.name ELSE m.name

\* entry e of the registration table is the entry of method m
IsEntryOf(e, m) ==
    /\ e.is_static = ~m.instance
    /\ e.signature = (IF m.getter THEN <<"getter", m.name>>
                      ELSE IF m.setter THEN <<"setter", m.name>>
                      ELSE <<"function", m.name, NonReceiverCount(m)>>)
    /\ e.pointer = <<IF m.instance THEN WrapperTy ELSE ClassTy,
                     "native_vm_" \o GeneratedName(m)>>
    /\ LET fns == IF m.instance THEN Unwrap(expansion).instance_fns
                  ELSE Unwrap(expansion).static_fns
       IN \E k \in 1..Len(fns) :
             fns[k].native = e.pointer[2] /\ fns[k].func = GeneratedName(m)

\* C15 as stated: the registration table has exactly one entry for each
\* declared method, with is_static, the signature under the declared name
\* and the pointer to the method's own adapter.
C15_EntryPerDeclaredMethod ==
    Generated =>
        /\ Len(Unwrap(expansion).function_pointers) = Len(items)
        /\ \A i \in DOMAIN items :
              IsEntryOf(Unwrap(expansion).function_pointers[i], items[i])

\* C15 amended: the registration table has exactly one entry, in declaration
\* order, for each declared method flagged neither ignore, allocator nor
\* constructor, and no other entry; the entry's is_static is true exactly
\* when the method is not flagged instance, its signature is getter(name),
\* setter(name) or function(name, arity) with the declared name, and its
\* pointer is the method's own adapter.
C15_EntryPerOtherMethod ==
    Generated =>
        LET table == Unwrap(expansion).function_pointers
        IN /\ Len(table) = Cardinality({j \in DOMAIN items : IsOther(items[j])})
           /\ \A i \in DOMAIN items :
                 IsOther(items[i]) => IsEntryOf(table[OtherIndex(i)], items[i])
           /\ Len(Unwrap(expansion).static_fns) + Len(Unwrap(expansion).instance_fns)
                 = Len(table)

\* the table of a block of a getter and an instance method with a parameter
C15_Witness ==
    /\ Generated
    /\ Len(items) = 2
    /\ Len(Unwrap(expansion).function_pointers) = 2
    /\ \E i, j \in DOMAIN items :
          /\ items[i].getter
          /\ items[j].instance /\ ~items[j].getter /\ NonReceiverCount(items[j]) = 1

Returned == obs.outcome = "returned"

\* C16: after an adapter call that returns normally, also one that ended
\* with a fiber-abort, the panic hook in effect is the one in effect before
\* the call, the VM user data holds the session value read at entry, and the
\* adapter holds no borrow of the VM.
C16_FrameRestored ==
    Returned =>
        /\ vm.hook = obs.entry_hook
        /\ vm.user_data = obs.entry_user_data
        /\ frame.conf = Some(obs.entry_user_data)
        /\ frame.borrows = {}

\* C17: session recovery is the first step of every adapter; when the
\* session handle of the user data cannot be upgraded the adapter fails
\* fatally and does nothing else: the no-op panic hook is not installed, no
\* slot is read or written, no fiber-abort is signalled and the native method
\* is not invoked.
C17_SessionFirst ==
    /\ program # <<>> =>
          (program[1].op = "read_user_data" /\ program[2].op = "upgrade")
    /\ (program # <<>> /\ ~inputs.session_alive) =>
          /\ vm.hook = obs.entry_hook
          /\ obs.reads = <<>>
          /\ vm.slots = obs.entry_slots
          /\ ~obs.ret_written
          /\ ~vm.fiber_aborted /\ vm.abort_msg = None
          /\ vm.foreign_allocs = 0
          /\ obs.native_calls = 0
          /\ frame.borrows = {}
          /\ frame.calcs = <<>> /\ frame.args = <<>>
          /\ pc <= 2 \/ (obs.panicked /\ Finished /\ ~Returned)

\* the adapter of an instance method with a parameter has failed on a dead
\* session
C17_Witness ==
    /\ HasCallFn /\ CallKindOf(batch) = "instance"
    /\ NonReceiverCount(batch[1]) >= 1
    /\ ~inputs.session_alive
    /\ obs.panicked /\ Finished

IsConstructorCall == CallKindOf(batch) = "constructor"

\* what construction returned to the adapter
Constructed == Unwrap(frame.result)

\* C18: the constructor adapter never writes a return value to a slot; when
\* construction returns Ok(instance) exactly one foreign object is allocated
\* at slot 0 and holds the instance with the instance type's id; when it
\* returns Err(message), an extraction failure included, nothing is allocated,
\* slot 0 holds the message and fiber-abort is signalled.
C18_ConstructorInstalls ==
    (program # <<>> /\ IsConstructorCall) =>
        /\ ~obs.ret_written
        /\ vm.foreign_allocs <= 1
        /\ (vm.foreign_allocs = 1 \/ vm.heap # {}) =>
               (IsSome(frame.result) /\ Constructed.ok)
        /\ (IsSome(obs.failed) /\ IsSome(frame.result)) =>
               /\ ~Constructed.ok
               /\ obs.native_calls = 0
               /\ LET p == CHOOSE q \in SeqToSet(ExtractionOrder(CallFn)) :
                               q[1] = Unwrap(obs.failed).idx
                  IN Constructed.val = FailMsg(p[2].ty, p[1] + 1)
        /\ (inputs.native = "err" /\ obs.native_calls = 1 /\ IsSome(frame.result)) =>
               (~Constructed.ok /\ Constructed.val = <<"native error">>)
        /\ (Returned /\ Constructed.ok) =>
               /\ vm.foreign_allocs = 1
               /\ vm.slots[0] = Foreign(SourceTy, "new")
               /\ vm.heap = {[obj |-> "new", object |-> Constructed.val,
                              type_id |-> SourceTy]}
               /\ ~vm.fiber_aborted
               /\ \A i \in (DOMAIN vm.slots) \ {0} : vm.slots[i] = obs.entry_slots[i]
        /\ (Returned /\ ~Constructed.ok) =>
               /\ vm.foreign_allocs = 0
               /\ vm.heap = {}
               /\ vm.slots[0] = [kind |-> "string", msg |-> Constructed.val]
               /\ vm.fiber_aborted
               /\ vm.abort_msg = Some(vm.slots[0])
               /\ \A i \in (DOMAIN vm.slots) \ {0} : vm.slots[i] = obs.entry_slots[i]

\* a declared constructor has returned Ok and its instance is installed
C18_Witness ==
    /\ HasCallFn /\ IsConstructorCall
    /\ NonReceiverCount(batch[1]) >= 1
    /\ Returned /\ Constructed.ok
    /\ vm.foreign_allocs = 1

\* the method of the block has no self and no parameter at all
NoReceiver == batch # <<>> /\ ~batch[1].has_self /\ batch[1].inputs = <<>>

\* the native method has been invoked
Invoked == HasCallFn /\ obs.native_calls >= 1

\* the combined view of the class record and the instance the VM put in slot 0
ViewOfSlot0 == Wrapper(ClassRecord, obs.entry_slots[0])

\* C19: a static method's adapter calls the native method with the class
\* record as receiver, a method declared with no receiver is accepted and
\* called with no receiver, and an instance method's adapter calls the native
\* method with the combined view of the class record and the instance record
\* found in slot 0.
C19_NoReceiverAccepted ==
    /\ NoReceiver => program # <<>>
    /\ (Invoked /\ CallKindOf(batch) = "static") =>
           obs.native_receiver =
               IF CallFn.func.has_self THEN Some(ClassRecord) ELSE None
    /\ (Invoked /\ CallKindOf(batch) = "instance") =>
           obs.native_receiver =
               IF CallFn.func.has_self THEN Some(ViewOfSlot0) ELSE None

\* C19 as the code has it: a method with no self and no parameter at all is
\* rejected ("must have a receiver"); a method without self has its first
\* parameter taken as the receiver; the adapter of every static method calls
\* the native method by the class's path with the class record in the
\* receiver's place, the adapter of every instance method by the combined
\* view's path with the view built from the class record and the instance
\* record found in slot 0, and the other parameters follow as arguments.
C19_ReceiverPassed ==
    /\ NoReceiver =>
           /\ program = <<>>
           /\ validate(batch).errors = <<Err("must_have_receiver", batch[1].name, 0)>>
    /\ HasCallFn => (CallFn.func.has_self \/ CallFn.func.inputs # <<>>)
    /\ (Invoked /\ CallKindOf(batch) = "static") =>
           /\ obs.native_receiver = Some(ClassRecord)
           /\ obs.native_path = ClassTy
    /\ (Invoked /\ CallKindOf(batch) = "instance") =>
           /\ obs.entry_slots[0].kind = "foreign" /\ obs.entry_slots[0].ty = SourceTy
           /\ obs.native_receiver = Some(ViewOfSlot0)
           /\ obs.native_path = WrapperTy
    /\ (Invoked /\ IsMethodCall) =>
           Len(obs.native_args) = Len(NonReceiverArgs(CallFn.func))

\* a static method declared with a typed first parameter in place of self has
\* been invoked with an argument
C19_Witness ==
    /\ IsMethodCall /\ CallKindOf(batch) = "static"
    /\ ~CallFn.func.has_self
    /\ Invoked
    /\ Len(obs.native_args) >= 1

\* two borrows of one record, one of them mutable
Aliased(b1, b2) ==
    /\ b1 # b2
    /\ b1[1] = b2[1] /\ b1[2] = b2[2]
    /\ "mut" \in {b1[3], b2[3]}

\* the borrows of the class record and of instance records the adapter holds
RecordBorrows == {b \in frame.borrows : b[1] \in {"class", "instance"}}

\* C20: during one call the receiver's class record and instance record are
\* each mutably borrowed at most once and not borrowed again while that
\* borrow is live, also when an object parameter has the receiver's type or
\* its slot holds the receiver itself; every borrow taken for the extraction
\* of an object parameter has ended when the adapter returns.
C20_NoAliasedBorrow ==
    /\ \A b1, b2 \in RecordBorrows : ~Aliased(b1, b2)
    /\ Returned => frame.borrows = {}
    /\ (program # <<>> /\ ~Finished /\ Cur(Current, program).op \in {"call", "exit"}) =>
           \A b \in RecordBorrows : b[3] = "mut"

\* the positions of the parameters extracted so far, in the order of extraction
ExtractedPositions ==
    LET argreads == SelectSeq(obs.reads, LAMBDA r : IsSome(r.arg))
    IN [k \in 1..Len(argreads) |-> Unwrap(argreads[k].arg)]

\* the positions whose slot held no value of the declared type at entry
InvalidPositions ==
    {p[1] : p \in {q \in SeqToSet(ExtractionOrder(CallFn)) : Mismatch(q)}}

\* C21: argument extraction runs strictly in position order whatever the
\* plain/object kind of the parameters: the slot of position i is extracted
\* before the slot of position j for i < j, and when several slots are invalid
\* the failure reported is the one of the lowest position.
C21_PositionOrder ==
    HasCallFn =>
        /\ \A k \in 1..(Len(ExtractedPositions) - 1) :
               ExtractedPositions[k] < ExtractedPositions[k + 1]
        /\ IsSome(obs.failed) =>
               \A i \in InvalidPositions : Unwrap(obs.failed).idx <= i

\* the parameter of the method at position i
ParamAt(f, i) == CHOOSE p \in SeqToSet(ExtractionOrder(f)) : p[1] = i

\* C22: the cursor of position 0 is created fresh from (slot 1, arity); the
\* cursor of every position i >= 1 is derived from the cursor of position
\* i-1 and slot i+1, whatever the kinds of the two parameters; a cursor is
\* defined before any cursor or extraction that uses it.
C22_CursorChain ==
    HasCallFn =>
        /\ \E k \in 0..arity(CallFn) : DOMAIN frame.calcs = 0..(k - 1)
        /\ \A i \in DOMAIN frame.calcs :
              LET calc == frame.calcs[i]
                  is_obj == ~IsPlainParam(CallFn, ParamAt(CallFn, i))
              IN /\ calc.slot = i + 1
                 /\ calc.arity = arity(CallFn)
                 /\ i = 0 => (/\ calc.prev = None
                              /\ calc.ctor = IF is_obj THEN "object_new" ELSE "new")
                 /\ i >= 1 => (/\ calc.prev = Some(frame.calcs[i - 1])
                               /\ calc.ctor = IF is_obj THEN "object_next" ELSE "next")
        /\ \A k \in 1..Len(ExtractedPositions) :
              ExtractedPositions[k] \in DOMAIN frame.calcs
        /\ DOMAIN frame.args \subseteq DOMAIN frame.calcs

\* the cursor of a plain parameter was derived from the cursor of an object
\* parameter, and its value extracted
C22_Witness ==
    /\ HasCallFn
    /\ 1 \in DOMAIN frame.calcs /\ 1 \in DOMAIN frame.args
    /\ frame.calcs[1].ctor = "next"
    /\ frame.calcs[0].ctor = "object_new"

\* every parameter of the method has been extracted
AllExtracted == DOMAIN frame.args = 0..(arity(CallFn) - 1)

\* C23: when all arguments have been extracted the native method is invoked
\* exactly once, with the receiver followed by the arguments in declaration
\* order: the k-th non-receiver argument (from 0) is the value extracted from
\* slot k+1, for any interleaving of plain and object parameters.
C23_DeclarationOrder ==
    HasCallFn =>
        /\ obs.native_calls <= 1
        /\ obs.native_calls = 1 =>
              /\ AllExtracted
              /\ IsSome(obs.native_receiver)
              /\ Len(obs.native_args) = Len(NonReceiverArgs(CallFn.func))
              /\ \A k \in 0..(Len(obs.native_args) - 1) :
                    /\ obs.native_args[k + 1] = frame.args[k]
                    /\ obs.native_args[k + 1].slot = k + 1
                    /\ obs.native_args[k + 1].val = obs.entry_slots[k + 1]
        /\ (AllExtracted /\ Returned) => obs.native_calls = 1

\* the native method was invoked with an object argument that is declared
\* behind a plain one
C23_Witness ==
    /\ HasCallFn /\ obs.native_calls = 1 /\ Finished
    /\ Len(obs.native_args) = 2
    /\ obs.native_args[1].val = Num
    /\ obs.native_args[2].val.kind = "foreign"

\* the methods of the block that get an adapter and a table entry
Others == {i \in DOMAIN items : IsOther(items[i])}

\* the validated function, the table entry and the adapter name of method i
FnOf(i) == Valid.others[OtherIndex(i)]
EntryOf(i) == Unwrap(expansion).function_pointers[OtherIndex(i)]
AdapterNameOf(i) == EntryOf(i).pointer[2]

\* getter, setter or plain method
RoleOf(m) == IF m.getter THEN "getter" ELSE IF m.setter THEN "setter" ELSE "function"

\* C24: a getter or setter named f is renamed internally to getter_f or
\* setter_f while its registration entry keeps the script-visible name f; a
\* getter f, a setter f and a plain method f of one type get three distinct
\* adapters and three distinct table entries, one per declared function.
C24_AccessorsRenamed ==
    Generated =>
        /\ Len(Unwrap(expansion).function_pointers) = Cardinality(Others)
        /\ \A i \in Others :
              /\ FnOf(i).func.name =
                    (IF items[i].getter THEN "getter_" \o items[i].name
                     ELSE IF items[i].setter THEN "setter_" \o items[i].name
                     ELSE items[i].name)
              /\ EntryOf(i).signature[1] = RoleOf(items[i])
              /\ EntryOf(i).signature[2] = items[i].name
              /\ AdapterNameOf(i) = "native_vm_" \o FnOf(i).func.name
        /\ \A i, j \in Others :
              (i # j /\ items[i].name = items[j].name
                     /\ RoleOf(items[i]) # RoleOf(items[j])) =>
                  /\ AdapterNameOf(i) # AdapterNameOf(j)
                  /\ EntryOf(i) # EntryOf(j)
                  /\ EntryOf(i).signature # EntryOf(j).signature

\* a block of a getter f, a setter f and a plain method f has been expanded
C24_Witness ==
    /\ Generated
    /\ Len(items) = 3 /\ Cardinality(Others) = 3
    /\ \A i \in Others : items[i].name = "f"
    /\ {RoleOf(items[i]) : i \in Others} = {"getter", "setter", "function"}

\* the functions validation resolved: the constructor and the others
ResolvedFns ==
    (IF IsSome(Valid.constructor) THEN {Unwrap(Valid.constructor)} ELSE {})
    \cup SeqToSet(Valid.others)

\* C25: a method flagged both getter and setter is rejected for every
\* parameter count and return type, the setter rule asking for exactly one
\* non-receiver parameter and the getter rule for none; no accepted method
\* has is_getter and is_setter both true.
C25_GetterSetterRejected ==
    /\ \A i \in DOMAIN items :
          (items[i].getter /\ items[i].setter) =>
              LET r == try_from(items[i])
              IN /\ ~r.ok /\ r.fn = None
                 /\ \E k \in 1..Len(r.errors) :
                       r.errors[k].kind \in {"getter", "setter", "must_have_receiver"}
                 /\ (setter_ok(items[i]) /\ (items[i].has_self \/ items[i].inputs # <<>>))
                       => ~getter_ok(items[i])
    /\ Generated => \A f \in ResolvedFns : ~(f.is_getter /\ f.is_setter)

\* a method flagged getter and setter that keeps the setter rule was rejected
\* by the getter rule alone
C25_Witness ==
    /\ Expanded /\ ~Generated
    /\ Len(items) = 1
    /\ items[1].getter /\ items[1].setter
    /\ ~items[1].ignore /\ ~items[1].allocator /\ ~items[1].constructor
    /\ NonReceiverCount(items[1]) = 1 /\ items[1].output = "Unit"
    /\ items[1].object = <<>>
    /\ Len(Unwrap(expansion).diagnostics) = 1
    /\ Unwrap(expansion).diagnostics[1].kind = "getter"

\* the methods flagged both allocator and constructor
AllocatorConstructors == Flagged("allocator") \cap Flagged("constructor")

DiagnosticKinds ==
    {Unwrap(expansion).diagnostics[k].kind : k \in 1..Len(Unwrap(expansion).diagnostics)}

\* C26: a method flagged both allocator and constructor makes validation fail
\* for every signature: with an empty parameter list the constructor check
\* fails for lack of a receiver, with a non-empty one the allocator check
\* fails for having parameters.
C26_AllocatorConstructorRejected ==
    (Expanded /\ AllocatorConstructors # {}) =>
        /\ ~Generated
        /\ Unwrap(expansion).diagnostics # <<>>
        /\ \A i \in AllocatorConstructors :
              /\ ~has_inputs(items[i]) =>
                    /\ validate_constructor(items[i]).errors =
                          <<Err("must_have_receiver", items[i].name, 0)>>
                    /\ (Cardinality(Flagged("allocator")) = 1
                        /\ Cardinality(Flagged("constructor")) = 1)
                          => "must_have_receiver" \in DiagnosticKinds
              /\ has_inputs(items[i]) =>
                    /\ validate_allocator(items[i]).errors[1] =
                          Err("allocator_params", items[i].name, 0)
                    /\ (Cardinality(Flagged("allocator")) = 1
                        /\ Cardinality(Flagged("constructor")) = 1)
                          => "allocator_params" \in DiagnosticKinds

\* a method flagged allocator and constructor with a self receiver and no
\* return type, which either role alone accepts, was rejected
C26_Witness ==
    /\ Expanded /\ ~Generated
    /\ Len(items) = 1
    /\ items[1].allocator /\ items[1].constructor /\ ~items[1].ignore
    /\ ~items[1].getter /\ ~items[1].setter /\ ~items[1].instance
    /\ items[1].has_self /\ items[1].inputs = <<>> /\ items[1].object = <<>>
    /\ items[1].output = "Default"
    /\ DiagnosticKinds = {"allocator_params"}

\* the methods flagged ignore that are neither allocator nor constructor
Ignored == {i \in DOMAIN items :
               items[i].ignore /\ ~items[i].allocator /\ ~items[i].constructor}

\* the block without the methods of Ignored, and with the ignore flag of the
\* allocator and of the constructor cleared
WithoutIgnored ==
    LET kept == SelectSeq(items, LAMBDA m : ~m.ignore \/ m.allocator \/ m.constructor)
    IN [k \in 1..Len(kept) |-> [kept[k] EXCEPT !.ignore = FALSE]]

\* C27: a method flagged ignore that is neither allocator nor constructor is
\* never validated and gets no adapter, no registration entry and no function
\* in the generated impl, so its own declaration errors are never reported;
\* the ignore flag does not take a method out of the allocator or constructor
\* role.
C27_IgnoredLeftOut ==
    Expanded =>
        /\ Unwrap(expansion) = wren_impl(WithoutIgnored)
        /\ Ignored = DOMAIN items =>
              (Generated /\ Unwrap(expansion).diagnostics = <<>>)
        /\ Generated =>
              /\ Len(Unwrap(expansion).function_pointers)
                    = Cardinality((DOMAIN items) \ (Ignored \cup Flagged("allocator")
                                                     \cup Flagged("constructor")))
              /\ Len(Unwrap(expansion).static_fns) + Len(Unwrap(expansion).instance_fns)
                    = Len(Unwrap(expansion).function_pointers)
              /\ \A i \in Flagged("allocator") :
                    Unwrap(expansion).allocate = Some(items[i].name)
              /\ \A i \in Flagged("constructor") :
                    Unwrap(expansion).construct = Some("vm_" \o GeneratedName(items[i]))

\* a block whose one method is flagged ignore and breaks the getter rule was
\* accepted, and nothing was generated for the method
C27_Witness ==
    /\ Generated
    /\ Len(items) = 1 /\ Ignored = {1}
    /\ items[1].getter /\ NonReceiverCount(items[1]) >= 1
    /\ ~try_from(items[1]).ok
    /\ Unwrap(expansion).function_pointers = <<>>
    /\ Unwrap(expansion).diagnostics = <<>>

\* C28: within one accepted block two methods with different declared names
\* and roles never get the same internal function name, hence never the same
\* adapter name native_vm_<name>; a plain method getter_f (or setter_f) and a
\* getter (or setter) f do not collide.
C28_NoNameCollision ==
    Generated =>
        \A i, j \in Others :
            (items[i].name # items[j].name /\ RoleOf(items[i]) # RoleOf(items[j])) =>
                /\ FnOf(i).func.name # FnOf(j).func.name
                /\ AdapterNameOf(i) # AdapterNameOf(j)
====
